---- MODULE Spec2Model ----
(***************************************************************************)
(* Model of the ViennaPTM modification engine: Modifier.apply_modification *)
(* with the ModificationLibrary lookups, the weighted rigid-body alignment *)
(* and the modification log of AnnotatedStructure.                         *)
(*                                                                         *)
(* Structures, residues and atoms are Python objects: they live in a heap  *)
(* (three sequences indexed by object identity) so that deepcopy and       *)
(* in-place mutation can be told apart.  Atom names and residue type       *)
(* labels are sequences of one-character strings, coordinates are points   *)
(* of the integer lattice, occupancies are counted in tenths.              *)
(***************************************************************************)
EXTENDS Integers, Sequences, FiniteSets, TLC

VARIABLES structs, residues, atoms, held, library, last, calls, procs, scipy

vars == <<structs, residues, atoms, held, library, last, calls, procs, scipy>>

(***************************************************************************)
(* Bounds of the model.                                                    *)
(***************************************************************************)
MaxCalls == 2

(***************************************************************************)
(* Python's None, for an atom name of a mapping pair, and for the serial   *)
(* number of an atom (serial numbers of parsed atoms start at 1).          *)
(***************************************************************************)
None == <<"None">>

NoSerial == 0

(***************************************************************************)
(* Atom names.                                                             *)
(***************************************************************************)
nN == <<"N">>

nCA == <<"C", "A">>

nCB == <<"C", "B">>

nCG1 == <<"C", "G", "1">>

nCG2 == <<"C", "G", "2">>

nCGX == <<"C", "G", "X">>


nOG == <<"O", "G">>

nOG3 == <<"O", "G", "3">>

nH == <<"H">>

nHB == <<"H", "B">>

nHG == <<"H", "G">>

nHG1 == <<"H", "G", "1">>

nHG3 == <<"H", "G", "3">>

nP == <<"P">>

nO1P == <<"O", "1", "P">>


(***************************************************************************)
(* Residue type labels.                                                    *)
(***************************************************************************)
VAL == <<"V", "A", "L">>

SER == <<"S", "E", "R">>

V3H == <<"V", "3", "H">>

SEP == <<"S", "E", "P">>

DHA == <<"D", "H", "A">>

VHX == <<"V", "H", "X">>






SEPL == <<"S", "E", "P", "L">>

VWR == <<"V", "W", "R">>

RMB == <<"R", "M", "B">>

(***************************************************************************)
(* Strings as character sequences.                                         *)
(***************************************************************************)
\* a sequence given by its elements, held as a tuple
AsSeq(f) == <<>> \o f

StartsWith(s, c) == Len(s) > 0 /\ s[1] = c

\* Python's `a in b` for strings: a is a contiguous part of b.
IsSubstring(a, b) ==
    \E k \in 0..(Len(b) - Len(a)) : \A i \in 1..Len(a) : b[k + i] = a[i]

\* x.endswith(suffix)
EndsWith(x, suffix) ==
    /\ Len(x) >= Len(suffix)
    /\ SubSeq(x, Len(x) - Len(suffix) + 1, Len(x)) = suffix

UpperCase ==
    <<"A", "B", "C", "D", "E", "F", "G", "H", "I", "J", "K", "L", "M",
      "N", "O", "P", "Q", "R", "S", "T", "U", "V", "W", "X", "Y", "Z">>

LowerCase ==
    <<"a", "b", "c", "d", "e", "f", "g", "h", "i", "j", "k", "l", "m",
      "n", "o", "p", "q", "r", "s", "t", "u", "v", "w", "x", "y", "z">>

\* x.lower()
Lower(x) ==
    AsSeq([i \in 1..Len(x) |->
        IF \E k \in 1..Len(UpperCase) : UpperCase[k] = x[i]
        THEN LowerCase[CHOOSE k \in 1..Len(UpperCase) : UpperCase[k] = x[i]]
        ELSE x[i]])

\* fixtures.PDB_ENDING
PDB_ENDING == <<".", "p", "d", "b">>

\* f"{name:>4}": right-justified in a field of four, never truncated.
Fullname4(name) ==
    IF Len(name) >= 4 THEN name
    ELSE AsSeq([i \in 1..(4 - Len(name)) |-> " "]) \o name

(***************************************************************************)
(* Vectors and matrices over the integers.                                 *)
(***************************************************************************)
Zero3 == <<0, 0, 0>>

Add3(a, b) == <<a[1] + b[1], a[2] + b[2], a[3] + b[3]>>

Sub3(a, b) == <<a[1] - b[1], a[2] - b[2], a[3] - b[3]>>

Scale3(k, a) == <<k * a[1], k * a[2], k * a[3]>>

Dot3(a, b) == a[1] * b[1] + a[2] * b[2] + a[3] * b[3]

MatVec(M, v) == <<Dot3(M[1], v), Dot3(M[2], v), Dot3(M[3], v)>>

Transpose3(M) == [i \in 1..3 |-> [j \in 1..3 |-> M[j][i]]]

MatMul3(A, B) == [i \in 1..3 |-> [j \in 1..3 |-> Dot3(A[i], Transpose3(B)[j])]]

Identity3 == <<<<1, 0, 0>>, <<0, 1, 0>>, <<0, 0, 1>>>>

Det3(M) ==
      M[1][1] * (M[2][2] * M[3][3] - M[2][3] * M[3][2])
    - M[1][2] * (M[2][1] * M[3][3] - M[2][3] * M[3][1])
    + M[1][3] * (M[2][1] * M[3][2] - M[2][2] * M[3][1])

(***************************************************************************)
(* Alignment engine (calculation/align.py).  Coordinates are lattice       *)
(* points and all sums are taken times the total weight W, which keeps the *)
(* weighted centroids integral.  Rotation.align_vectors returns the        *)
(* rotation M that maximises the trace of M^T B over all rotations, B the  *)
(* correlation matrix of the two vector sets.  A rotation M is such a      *)
(* maximum exactly when S = M^T B is symmetric and no two eigenvalues of S *)
(* have a negative sum, that is when tr(S) I - S is positive semidefinite; *)
(* it is the only maximum when tr(S) I - S is positive definite.  Both     *)
(* tests are exact on integers, so a lattice rotation that passes is the   *)
(* rotation align_vectors computes.  The model covers the inputs whose     *)
(* optimum is a lattice rotation and whose translation is a lattice        *)
(* vector; on other inputs AlignVectors and Translation have no value.     *)
(*                                                                         *)
(* setup.py names scipy with no version, and the versions differ where the *)
(* vectors are all zero, as the centered coordinates of a single anchor    *)
(* always are: align_vectors of scipy 1.12 and later raises ValueError for *)
(* a single pair of zero vectors, earlier versions decompose the zero      *)
(* matrix like any other and return the product of the factors they get.   *)
(* The variable scipy is the build the program runs with: whether it       *)
(* rejects a single pair, and the rotation it gets from the zero matrix.   *)
(***************************************************************************)
RECURSIVE SumSeq(_)
SumSeq(s) == IF s = <<>> THEN 0 ELSE s[1] + SumSeq(Tail(s))

RECURSIVE WeightedSum(_, _)
\* sum of w[i] * p[i]: the weighted centroid times the total weight
WeightedSum(p, w) ==
    IF p = <<>> THEN Zero3
    ELSE Add3(Scale3(w[1], p[1]), WeightedSum(Tail(p), Tail(w)))

\* coordinates minus their weighted centroid, times the total weight
Centered(p, w) ==
    AsSeq([i \in 1..Len(p) |-> Sub3(Scale3(SumSeq(w), p[i]), WeightedSum(p, w))])

\* the signed unit vectors: the rows an orthogonal lattice matrix can have
UnitRows ==
    {<<1, 0, 0>>, <<-1, 0, 0>>, <<0, 1, 0>>, <<0, -1, 0>>, <<0, 0, 1>>, <<0, 0, -1>>}

\* the rotations with entries in {-1, 0, 1}
Rotations ==
    {<<M[1], M[2], M[3]>> : M \in
        {R \in [1..3 -> UnitRows] :
            MatMul3(Transpose3(R), R) = Identity3 /\ Det3(R) = 1}}

\* the rotations drawn for the product of the factors of the zero matrix:
\* the identity and a quarter turn
ZeroRotations == {Identity3, <<<<0, -1, 0>>, <<1, 0, 0>>, <<0, 0, 1>>>>}

\* the builds of scipy drawn
ScipyBuilds ==
    {[rejects_single |-> r, zero_rotation |-> M] : r \in BOOLEAN, M \in ZeroRotations}

\* a build for the specifications in which no alignment is on vectors that
\* are all zero, so that the builds do not differ
AnyScipy == CHOOSE build \in ScipyBuilds : TRUE

\* B = sum of w[i] * a[i] b[i]^T, the matrix align_vectors decomposes
Products(a, b, w) ==
    <<<<SumSeq(AsSeq([i \in 1..Len(a) |-> w[i] * a[i][1] * b[i][1]])),
        SumSeq(AsSeq([i \in 1..Len(a) |-> w[i] * a[i][1] * b[i][2]])),
        SumSeq(AsSeq([i \in 1..Len(a) |-> w[i] * a[i][1] * b[i][3]]))>>,
      <<SumSeq(AsSeq([i \in 1..Len(a) |-> w[i] * a[i][2] * b[i][1]])),
        SumSeq(AsSeq([i \in 1..Len(a) |-> w[i] * a[i][2] * b[i][2]])),
        SumSeq(AsSeq([i \in 1..Len(a) |-> w[i] * a[i][2] * b[i][3]]))>>,
      <<SumSeq(AsSeq([i \in 1..Len(a) |-> w[i] * a[i][3] * b[i][1]])),
        SumSeq(AsSeq([i \in 1..Len(a) |-> w[i] * a[i][3] * b[i][2]])),
        SumSeq(AsSeq([i \in 1..Len(a) |-> w[i] * a[i][3] * b[i][3]]))>>>>

Abs(n) == IF n < 0 THEN -n ELSE n

RECURSIVE Gcd(_, _)
\* the greatest common divisor of two naturals, 0 for two zeros
Gcd(m, n) == IF n = 0 THEN m ELSE Gcd(n, m % n)

RECURSIVE GcdSeq(_)
GcdSeq(s) == IF s = <<>> THEN 0 ELSE Gcd(Abs(s[1]), GcdSeq(Tail(s)))

\* P over the greatest common divisor of its entries
Reduced(P) ==
    IF GcdSeq(P[1] \o P[2] \o P[3]) = 0 THEN P
    ELSE <<<<P[1][1] \div GcdSeq(P[1] \o P[2] \o P[3]),
             P[1][2] \div GcdSeq(P[1] \o P[2] \o P[3]),
             P[1][3] \div GcdSeq(P[1] \o P[2] \o P[3])>>,
           <<P[2][1] \div GcdSeq(P[1] \o P[2] \o P[3]),
             P[2][2] \div GcdSeq(P[1] \o P[2] \o P[3]),
             P[2][3] \div GcdSeq(P[1] \o P[2] \o P[3])>>,
           <<P[3][1] \div GcdSeq(P[1] \o P[2] \o P[3]),
             P[3][2] \div GcdSeq(P[1] \o P[2] \o P[3]),
             P[3][3] \div GcdSeq(P[1] \o P[2] \o P[3])>>>>

\* B over the greatest common divisor of its entries: the positive factor
\* changes neither the optimal rotations nor the signs tested below, and
\* keeps the determinants small
Correlation(a, b, w) ==
    CHOOSE B \in {Reduced(P) : P \in {Products(x[1], x[2], x[3]) : x \in {<<a, b, w>>}}} : TRUE

Symmetric3(S) == S[1][2] = S[2][1] /\ S[1][3] = S[3][1] /\ S[2][3] = S[3][2]

\* the 2x2 principal minor of S on the rows and columns i and j
Minor2(S, i, j) == S[i][i] * S[j][j] - S[i][j] * S[j][i]

\* a symmetric S has no negative eigenvalue: no principal minor is negative
PositiveSemidefinite3(S) ==
    /\ S[1][1] >= 0 /\ S[2][2] >= 0 /\ S[3][3] >= 0
    /\ Minor2(S, 1, 2) >= 0 /\ Minor2(S, 1, 3) >= 0 /\ Minor2(S, 2, 3) >= 0
    /\ Det3(S) >= 0

\* a symmetric S has positive eigenvalues only: Sylvester's criterion
PositiveDefinite3(S) == S[1][1] > 0 /\ Minor2(S, 1, 2) > 0 /\ Det3(S) > 0

\* tr(S) I - S: its eigenvalues are the sums of two eigenvalues of S
PairSums(S) ==
    <<<<S[2][2] + S[3][3], -S[1][2], -S[1][3]>>,
      <<-S[2][1], S[1][1] + S[3][3], -S[2][3]>>,
      <<-S[3][1], -S[3][2], S[1][1] + S[2][2]>>>>

\* the rotation M maximises the trace of M^T B over all rotations
Maximal(M, B) ==
    /\ Symmetric3(MatMul3(Transpose3(M), B))
    /\ PositiveSemidefinite3(PairSums(MatMul3(Transpose3(M), B)))

\* the rotation M is the only maximum
OnlyMaximum(M, B) ==
    /\ Symmetric3(MatMul3(Transpose3(M), B))
    /\ PositiveDefinite3(PairSums(MatMul3(Transpose3(M), B)))

\* the lattice rotations align_vectors can return for a onto b: one when
\* the optimum is unique, several when the decomposition of B decides
OptimalRotations(a, b, w) ==
    UNION {{M \in Rotations : Maximal(M, B)} : B \in {Correlation(a, b, w)}}

\* Rotation.align_vectors(a, b, weights) once it has taken the vectors: on
\* vectors that are all zero the rotation the build gets from the zero
\* matrix, else on vectors with one optimal rotation that rotation
AlignVectors(a, b, w) ==
    IF Correlation(a, b, w) = <<Zero3, Zero3, Zero3>> THEN scipy.zero_rotation
    ELSE CHOOSE M \in OptimalRotations(a, b, w) :
            \A B \in {Correlation(a, b, w)} : OnlyMaximum(M, B)

\* n / d for a multiple n of d > 0
ExactDiv(n, d) ==
    CHOOSE q \in (IF n < 0 THEN n ELSE -n)..(IF n < 0 THEN -n ELSE n) : q * d = n

\* the translation gone wrong: the template centroid is not rotated
Translation_Unrotated(M_rotation, sum_reference, sum_template, W) ==
    <<(sum_reference[1] - sum_template[1]) \div W,
      (sum_reference[2] - sum_template[2]) \div W,
      (sum_reference[3] - sum_template[3]) \div W>>

\* v_translation = cog_reference - M_rotation @ cog_template, from the
\* centroids times the total weight W
Translation(M_rotation, sum_reference, sum_template, W) ==
    <<ExactDiv(sum_reference[1] - Dot3(M_rotation[1], sum_template), W),
      ExactDiv(sum_reference[2] - Dot3(M_rotation[2], sum_template), W),
      ExactDiv(sum_reference[3] - Dot3(M_rotation[3], sum_template), W)>>

\* the translation for the rotation M_rotation is a lattice vector
LatticeTranslation(M_rotation, coord_reference, coord_template, weights) ==
    \A j \in 1..3 :
        (WeightedSum(coord_reference, weights)[j]
            - Dot3(M_rotation[j], WeightedSum(coord_template, weights)))
        % SumSeq(weights) = 0

TransformOf(M_rotation, coord_reference, coord_template, weights) ==
    [M_rotation |-> M_rotation,
     v_translation |-> Translation(M_rotation,
                                   WeightedSum(coord_reference, weights),
                                   WeightedSum(coord_template, weights),
                                   SumSeq(weights))]

compute_alignment_transform(coord_reference, coord_template, weights) ==
    TransformOf(AlignVectors(Centered(coord_reference, weights),
                             Centered(coord_template, weights),
                             weights),
                coord_reference, coord_template, weights)

\* (M_rotation @ coords.T).T + v_translation: the product raises for the
\* array of no coordinates, whose shape is (0,)
apply_transform(coords, M_rotation, v_translation) ==
    IF Len(coords) = 0 THEN [exc |-> "ValueError", value |-> <<>>]
    ELSE [exc |-> "none",
          value |-> AsSeq([i \in 1..Len(coords) |->
                        Add3(MatVec(M_rotation, coords[i]), v_translation)])]

(***************************************************************************)
(* The object heap.  hp.structs[h] is a structure: its residues in         *)
(* traversal order (object identities) and its modification log.           *)
(* hp.residues[r] is a residue: its full identifier, its type label and    *)
(* its child list (atom identities).  hp.atoms[a] is an atom.              *)
(***************************************************************************)
Heap == [structs |-> structs, residues |-> residues, atoms |-> atoms]

\* Outcome of a step: the heap it leaves, the exception it raised ("none"
\* when it returned) and whether the error was written to the error log.
Ok(hp) == [hp |-> hp, exc |-> "none", logged |-> FALSE]

Raise(hp, exc, logged) == [hp |-> hp, exc |-> exc, logged |-> logged]

\* raise_with_logging_error: logger.error(message), then raise
raise_with_logging_error(hp, exception_type) == Raise(hp, exception_type, TRUE)

\* position of the child with identifier id in the residue, 0 when absent
ChildIndex(hp, r, id) ==
    LET hit == {i \in 1..Len(hp.residues[r].atoms) :
                    hp.atoms[hp.residues[r].atoms[i]].id = id}
    IN  IF hit = {} THEN 0 ELSE CHOOSE i \in hit : \A j \in hit : i <= j

\* `id in residue`
HasId(hp, r, id) == ChildIndex(hp, r, id) # 0

\* residue[id], defined when HasId
GetChild(hp, r, id) == hp.residues[r].atoms[ChildIndex(hp, r, id)]

\* residue.detach_child(id), defined when HasId
DetachChild(hp, r, id) ==
    LET k == ChildIndex(hp, r, id)
        old == hp.residues[r].atoms
    IN  [hp EXCEPT !.residues[r].atoms =
            SubSeq(old, 1, k - 1) \o SubSeq(old, k + 1, Len(old))]

\* residue.add(atom), defined when no child has the atom's identifier
AddChild(hp, r, a) ==
    [hp EXCEPT !.residues[r].atoms = Append(@, a)]

RECURSIVE DetachAll(_, _, _)
DetachAll(hp, r, names) ==
    IF names = <<>> THEN hp
    ELSE DetachAll(DetachChild(hp, r, names[1]), r, Tail(names))

\* remove_hydrogens gone wrong: the hydrogens of every residue are removed
remove_hydrogens_Everywhere(hp, r) ==
    [hp EXCEPT !.residues =
        AsSeq([q \in 1..Len(hp.residues) |->
            [hp.residues[q] EXCEPT !.atoms =
                SelectSeq(hp.residues[q].atoms,
                          LAMBDA a : ~StartsWith(hp.atoms[a].name, "H"))]])]

\* remove_hydrogens gone wrong: only the atom named exactly "H" is removed
remove_hydrogens_ExactName(hp, r) ==
    IF HasId(hp, r, <<"H">>) THEN DetachChild(hp, r, <<"H">>) ELSE hp

\* Modifier.remove_hydrogens
remove_hydrogens(hp, r) ==
    LET IsHydrogen(a) == StartsWith(hp.atoms[a].name, "H")
        hydrogens == SelectSeq(hp.residues[r].atoms, IsHydrogen)
        to_delete == AsSeq([i \in 1..Len(hydrogens) |-> hp.atoms[hydrogens[i]].name])
    IN  DetachAll(hp, r, to_delete)

\* residue.add(atom) at the end of _rename_atom: raises when the residue
\* already holds an atom of that name
Reinsert(hp, r, atom) ==
    IF HasId(hp, r, hp.atoms[atom].id)
    THEN Raise(hp, "PDBConstructionException", FALSE)
    ELSE Ok(AddChild(hp, r, atom))

\* atom.name, atom.fullname and atom.id of _rename_atom
SetName(hp, atom, new_name) ==
    [hp EXCEPT !.atoms[atom].name = new_name,
               !.atoms[atom].fullname = Fullname4(new_name),
               !.atoms[atom].id = new_name]

\* _rename_atom gone wrong: an atom that is not there is passed over
_rename_atom_SkipAbsent(hp, r, old_name, new_name) ==
    IF ~HasId(hp, r, old_name) THEN Ok(hp)
    ELSE Reinsert(SetName(DetachChild(hp, r, old_name),
                          GetChild(hp, r, old_name), new_name),
                  r, GetChild(hp, r, old_name))

\* Modifier._rename_atom
_rename_atom(hp, r, old_name, new_name) ==
    IF ~HasId(hp, r, old_name) THEN Raise(hp, "KeyError", FALSE)
    ELSE Reinsert(SetName(DetachChild(hp, r, old_name),
                          GetChild(hp, r, old_name), new_name),
                  r, GetChild(hp, r, old_name))

(***************************************************************************)
(* Modifier._execute_modification.  A modification is a record             *)
(* [residue_original_abbreviation, residue_modified_abbreviation,          *)
(* atom_mapping, add_branches]; atom_mapping is a sequence of pairs        *)
(* <<ori, tar>>, a branch is [anchor_atoms, weights, add_atoms].  A        *)
(* template residue is parsed afresh for every call: a value               *)
(* [resname, atoms] whose atoms are atom records.                          *)
(***************************************************************************)

\* _mapping = {temp: ori for ori, temp in atom_mapping}: a later pair with
\* the same template name replaces an earlier one
MappingHasKey(atom_mapping, temp) ==
    \E i \in 1..Len(atom_mapping) : atom_mapping[i][2] = temp

MappingValue(atom_mapping, temp) ==
    LET hit == {i \in 1..Len(atom_mapping) : atom_mapping[i][2] = temp}
    IN  atom_mapping[CHOOSE i \in hit : \A j \in hit : j <= i][1]

\* template_residue[name]
TemplateHas(template_residue, name) ==
    \E i \in 1..Len(template_residue.atoms) : template_residue.atoms[i].id = name

TemplateAtom(template_residue, name) ==
    LET hit == {i \in 1..Len(template_residue.atoms) :
                    template_residue.atoms[i].id = name}
    IN  template_residue.atoms[CHOOSE i \in hit : \A j \in hit : i <= j]

\* Modifier.atoms_to_array on atoms of the residue
ResidueCoords(hp, r, names) ==
    AsSeq([i \in 1..Len(names) |-> hp.atoms[GetChild(hp, r, names[i])].coord])

\* Modifier.atoms_to_array on atoms of the template
TemplateCoords(template_residue, names) ==
    AsSeq([i \in 1..Len(names) |-> TemplateAtom(template_residue, names[i]).coord])

RECURSIVE ApplyAtomMapping(_, _, _)
\* after a rename of the loop over atom_mapping: the remaining pairs
AfterRename(renamed, r, rest) ==
    IF renamed.exc # "none" THEN renamed
    ELSE ApplyAtomMapping(renamed.hp, r, rest)

\* one pair <<ori, tar>> of the loop over atom_mapping, then the rest
ApplyPair(hp, r, ori, tar, rest) ==
    IF ori = tar THEN ApplyAtomMapping(hp, r, rest)
    ELSE IF ori = None THEN ApplyAtomMapping(hp, r, rest)
    ELSE IF tar = None
         THEN IF HasId(hp, r, ori)
              THEN ApplyAtomMapping(DetachChild(hp, r, ori), r, rest)
              ELSE ApplyAtomMapping(hp, r, rest)
    ELSE AfterRename(_rename_atom(hp, r, ori, tar), r, rest)

\* the loop over atom_mapping of the first branch: deletions and renames
ApplyAtomMapping(hp, r, atom_mapping) ==
    IF atom_mapping = <<>> THEN Ok(hp)
    ELSE ApplyPair(hp, r, atom_mapping[1][1], atom_mapping[1][2], Tail(atom_mapping))

\* Atom(name, coord, bfactor=0, occupancy=1.0, altloc=' ', fullname,
\*      serial_number=None, element) built from a template atom
\* the new atom gone wrong: it stays where the template has it
NewAtom_Untransformed(template_atom, coord) ==
    [name |-> template_atom.name,
     id |-> template_atom.name,
     fullname |-> Fullname4(template_atom.fullname),
     coord |-> template_atom.coord,
     bfactor |-> 0,
     occupancy |-> 10,
     altloc |-> " ",
     serial_number |-> NoSerial,
     element |-> template_atom.element]

NewAtom(template_atom, coord) ==
    [name |-> template_atom.name,
     id |-> template_atom.name,
     fullname |-> Fullname4(template_atom.fullname),
     coord |-> coord,
     bfactor |-> 0,
     occupancy |-> 10,
     altloc |-> " ",
     serial_number |-> NoSerial,
     element |-> template_atom.element]

RECURSIVE AddNewAtoms(_, _, _, _, _)
\* residue.add(Atom(...)) for the atom just created, then the next ones
AddCreated(created, r, add_atoms, coords_aligned, atom_idx) ==
    IF HasId(created, r, created.atoms[Len(created.atoms)].id)
    THEN Raise(created, "PDBConstructionException", FALSE)
    ELSE AddNewAtoms(AddChild(created, r, Len(created.atoms)), r, add_atoms,
                     coords_aligned, atom_idx + 1)

\* the loop adding the new atoms of a branch, from index atom_idx on
AddNewAtoms(hp, r, add_atoms, coords_aligned, atom_idx) ==
    IF atom_idx > Len(add_atoms) THEN Ok(hp)
    ELSE AddCreated([hp EXCEPT !.atoms =
                        Append(@, NewAtom(add_atoms[atom_idx], coords_aligned[atom_idx]))],
                    r, add_atoms, coords_aligned, atom_idx)

\* the new atoms of a branch, once the mapping of the first branch is applied
AddAfterMapping(mapped, r, add_atoms, coords_aligned) ==
    IF mapped.exc # "none" THEN mapped
    ELSE AddNewAtoms(mapped.hp, r, add_atoms, coords_aligned, 1)

\* apply_transform with the pair returned by compute_alignment_transform
Aligned(coords, transform) ==
    apply_transform(coords, transform.M_rotation, transform.v_translation)

\* a branch whose anchors are translated to the names of the original residue
AlignBranch(hp, r, atom_mapping, template_residue, branch, branch_first, anchor_atoms_in_original_residue) ==
    IF \E i \in 1..Len(branch.anchor_atoms) :
            ~HasId(hp, r, anchor_atoms_in_original_residue[i])
    THEN raise_with_logging_error(hp, "KeyError")
    ELSE IF \E i \in 1..Len(branch.anchor_atoms) :
            ~TemplateHas(template_residue, branch.anchor_atoms[i])
    THEN raise_with_logging_error(hp, "KeyError")
    ELSE IF SumSeq(branch.weights) = 0
    THEN Raise(hp, "ZeroDivisionError", FALSE)
    ELSE IF \E i \in 1..Len(branch.weights) : branch.weights[i] < 0
    THEN Raise(hp, "ValueError", FALSE)
    ELSE IF Len(branch.anchor_atoms) = 1 /\ scipy.rejects_single
    THEN Raise(hp, "ValueError", FALSE)
    ELSE IF \E i \in 1..Len(branch.add_atoms) :
            ~TemplateHas(template_residue, branch.add_atoms[i])
    THEN Raise(hp, "KeyError", FALSE)
    ELSE IF apply_transform(TemplateCoords(template_residue, branch.add_atoms),
                            Identity3, Zero3).exc # "none"
    THEN Raise(hp, "ValueError", FALSE)
    ELSE AddAfterMapping(
            IF branch_first THEN ApplyAtomMapping(hp, r, atom_mapping) ELSE Ok(hp),
            r,
            AsSeq([i \in 1..Len(branch.add_atoms) |->
                        TemplateAtom(template_residue, branch.add_atoms[i])]),
            Aligned(TemplateCoords(template_residue, branch.add_atoms),
                    compute_alignment_transform(
                        ResidueCoords(hp, r, anchor_atoms_in_original_residue),
                        TemplateCoords(template_residue, branch.anchor_atoms),
                        branch.weights)).value)

\* the branch after the mapping was applied ahead of its lookups
MappedThenBranch(mapped, r, modification, template_residue, branch) ==
    IF mapped.exc # "none" THEN mapped
    ELSE IF \E i \in 1..Len(branch.anchor_atoms) :
            ~MappingHasKey(modification.atom_mapping, branch.anchor_atoms[i])
    THEN Raise(mapped.hp, "KeyError", FALSE)
    ELSE AlignBranch(mapped.hp, r, modification.atom_mapping, template_residue, branch,
                     FALSE,
                     AsSeq([i \in 1..Len(branch.anchor_atoms) |->
                        MappingValue(modification.atom_mapping, branch.anchor_atoms[i])]))

\* the loop body gone wrong: the deletions and renames of the first branch
\* are done at the top of the body, before the anchors and the atoms to add
\* are looked up
ExecuteBranch_MappingFirst(hp, r, modification, template_residue, branch, branch_first) ==
    MappedThenBranch(IF branch_first
                     THEN ApplyAtomMapping(hp, r, modification.atom_mapping)
                     ELSE Ok(hp),
                     r, modification, template_residue, branch)

\* the loop body gone wrong: branch_first is never cleared, every branch
\* applies the mapping
ExecuteBranch_AlwaysFirst(hp, r, modification, template_residue, branch, branch_first) ==
    IF \E i \in 1..Len(branch.anchor_atoms) :
            ~MappingHasKey(modification.atom_mapping, branch.anchor_atoms[i])
    THEN Raise(hp, "KeyError", FALSE)
    ELSE AlignBranch(hp, r, modification.atom_mapping, template_residue, branch,
                     TRUE,
                     AsSeq([i \in 1..Len(branch.anchor_atoms) |->
                        MappingValue(modification.atom_mapping, branch.anchor_atoms[i])]))

\* one iteration of the loop over modification.add_branches
ExecuteBranch(hp, r, modification, template_residue, branch, branch_first) ==
    IF \E i \in 1..Len(branch.anchor_atoms) :
            ~MappingHasKey(modification.atom_mapping, branch.anchor_atoms[i])
    THEN Raise(hp, "KeyError", FALSE)
    ELSE AlignBranch(hp, r, modification.atom_mapping, template_residue, branch,
                     branch_first,
                     AsSeq([i \in 1..Len(branch.anchor_atoms) |->
                        MappingValue(modification.atom_mapping, branch.anchor_atoms[i])]))

RECURSIVE ExecuteBranches(_, _, _, _, _)
\* after branch k: the branches that follow it
AfterBranch(done, r, modification, template_residue, k) ==
    IF done.exc # "none" THEN done
    ELSE ExecuteBranches(done.hp, r, modification, template_residue, k + 1)

\* an outcome that raised, with the heap put back to hp
Undone(out, hp) ==
    IF out.exc # "none" THEN [out EXCEPT !.hp = hp] ELSE out

\* the loop gone wrong: a branch that raises takes back what the branches
\* before it did
ExecuteBranches_RolledBack(hp, r, modification, template_residue, k) ==
    IF k > Len(modification.add_branches) THEN Ok(hp)
    ELSE Undone(AfterBranch(ExecuteBranch(hp, r, modification, template_residue,
                                          modification.add_branches[k], k = 1),
                            r, modification, template_residue, k),
                hp)

\* the loop over modification.add_branches, from branch k on
ExecuteBranches(hp, r, modification, template_residue, k) ==
    IF k > Len(modification.add_branches) THEN Ok(hp)
    ELSE AfterBranch(ExecuteBranch(hp, r, modification, template_residue,
                                   modification.add_branches[k], k = 1),
                     r, modification, template_residue, k)

\* _execute_modification gone wrong: the mapping is applied before the
\* loop, with or without branches
_execute_modification_MappingAlways(hp, r, modification, template_residue) ==
    IF Len(modification.add_branches) = 0
    THEN ApplyAtomMapping(hp, r, modification.atom_mapping)
    ELSE ExecuteBranches(hp, r, modification, template_residue, 1)

_execute_modification(hp, r, modification, template_residue) ==
    ExecuteBranches(hp, r, modification, template_residue, 1)

(***************************************************************************)
(* ModificationLibrary.  The rule source is the parsed JSON: its           *)
(* "modifications" table as a sequence of entries [key, atom_mapping,      *)
(* add_branches] in file order (keys are unique).  The template directory  *)
(* maps the stem of every template file to the residues the file holds.    *)
(***************************************************************************)
RECURSIVE SplitUnderscore(_)
\* key.split('_')
SplitUnderscore(key) ==
    LET seps == {i \in 1..Len(key) : key[i] = "_"}
    IN  IF seps = {} THEN <<key>>
        ELSE LET k == CHOOSE i \in seps : \A j \in seps : i <= j
             IN  <<SubSeq(key, 1, k - 1)>> \o SplitUnderscore(SubSeq(key, k + 1, Len(key)))

\* AddBranch.check_branch, for a branch with consistent weights: a branch
\* without weights gets weight 1.0 for every anchor atom
\* check_branch gone wrong: a branch given no weights keeps none
check_branch_NoDefault(branch) == branch

check_branch(branch) ==
    IF Len(branch.weights) = 0 /\ Len(branch.anchor_atoms) > 0
    THEN [branch EXCEPT !.weights = AsSeq([i \in 1..Len(branch.anchor_atoms) |-> 1])]
    ELSE branch

\* the Modification built from one entry of the rule source
ParseModification(entry) ==
    [residue_original_abbreviation |-> SplitUnderscore(entry.key)[1],
     residue_modified_abbreviation |-> SplitUnderscore(entry.key)[2],
     atom_mapping |-> entry.atom_mapping,
     add_branches |-> AsSeq([i \in 1..Len(entry.add_branches) |->
                            check_branch(entry.add_branches[i])])]

\* ModificationLibrary._load_library
_load_library(rule_source) ==
    AsSeq([i \in 1..Len(rule_source) |-> ParseModification(rule_source[i])])

\* what is at a path given as pdbs_minimized: a directory with its files
\* (the name of every file mapped to the residues the file holds), or
\* something that is no directory
Directory(files) == [isdir |-> TRUE, files |-> files]

NoDirectory == [isdir |-> FALSE, files |-> <<>>]

\* the files that pass x.lower().endswith(PDB_ENDING)
MinimizedPdbFiles(files) == {x \in DOMAIN files : EndsWith(Lower(x), PDB_ENDING)}

\* ModificationLibrary._populate_minimized_PDBs: f[:-4] -> path of f, for
\* the files f that end in ".pdb" as written
_populate_minimized_PDBs(pdbs_minimized) ==
    IF ~pdbs_minimized.isdir
    THEN [exc |-> "FileNotFoundError", logged |-> TRUE, value |-> <<>>]
    ELSE IF MinimizedPdbFiles(pdbs_minimized.files) = {}
    THEN [exc |-> "FileNotFoundError", logged |-> TRUE, value |-> <<>>]
    ELSE [exc |-> "none", logged |-> FALSE,
          value |-> [stem \in {SubSeq(f, 1, Len(f) - 4) :
                                f \in {x \in MinimizedPdbFiles(pdbs_minimized.files) :
                                            EndsWith(x, <<".", "p", "d", "b">>)}}
                        |-> stem \o <<".", "p", "d", "b">>]]

\* the fields of the library that ModificationLibrary.__init__ returns for
\* a rule source and the files of a template directory
LoadLibrary(rule_source, template_dir) ==
    [modifications |-> _load_library(rule_source),
     target_templates |-> _populate_minimized_PDBs(Directory(template_dir)).value]

\* ModificationLibrary.__getitem__ with a tuple (original, modified)
\* AddBranch.check_branch raises: weights are given and their number is not
\* the number of anchor atoms
BranchRejected(branch) ==
    Len(branch.weights) # 0 /\ Len(branch.weights) # Len(branch.anchor_atoms)

\* original, modified = key.split('_') raises unless there are two parts
KeyRejected(key) == Len(SplitUnderscore(key)) # 2

\* an entry of the library file that cannot be made a Modification
EntryRejected(entry) ==
    \/ KeyRejected(entry.key)
    \/ \E i \in 1..Len(entry.add_branches) : BranchRejected(entry.add_branches[i])

\* ModificationLibrary(library_path, pdbs_minimized): the library, or the
\* error of the first entry that is rejected (a weight count that is wrong is
\* logged by check_branch, a key that does not split in two is not), or the
\* error of the template directory
Construct(rule_source, pdbs_minimized) ==
    IF \E i \in 1..Len(rule_source) : EntryRejected(rule_source[i])
    THEN [exc |-> "ValueError",
          logged |-> ~KeyRejected(rule_source[
                        CHOOSE i \in 1..Len(rule_source) :
                            /\ EntryRejected(rule_source[i])
                            /\ \A j \in 1..(i - 1) : ~EntryRejected(rule_source[j])].key),
          library |-> None]
    ELSE IF _populate_minimized_PDBs(pdbs_minimized).exc # "none"
    THEN [exc |-> _populate_minimized_PDBs(pdbs_minimized).exc,
          logged |-> _populate_minimized_PDBs(pdbs_minimized).logged,
          library |-> None]
    ELSE [exc |-> "none", logged |-> FALSE,
          library |-> LoadLibrary(rule_source, pdbs_minimized.files)]

\* ModificationLibrary.__getitem__ with an int: self.modifications[index],
\* the indexing of a Python list, which counts a negative index from the end
GetItemByIndex(lib, index) ==
    IF index >= 0 /\ index < Len(lib.modifications)
    THEN [exc |-> "none", value |-> lib.modifications[index + 1]]
    ELSE IF index < 0 /\ index >= -Len(lib.modifications)
    THEN [exc |-> "none", value |-> lib.modifications[Len(lib.modifications) + index + 1]]
    ELSE [exc |-> "IndexError", value |-> None]

\* ModificationLibrary.__setitem__: the debug message is formatted first and
\* reads self.modificationsp, an attribute the library does not have, so the
\* assignment that follows is never reached
SetItem(lib, index, value) ==
    [exc |-> "AttributeError", library |-> lib]

\* ModificationLibrary.__len__
LenOf(lib) == Len(lib.modifications)

\* ModificationLibrary.__iter__: the entries in list order
IterOf(lib) == lib.modifications

\* the lookup gone wrong: only the modified abbreviation is compared
GetItemByPair_ModifiedOnly(lib, original, modified) ==
    LET hit == {i \in 1..Len(lib.modifications) :
                    lib.modifications[i].residue_modified_abbreviation = modified}
    IN  IF hit = {} THEN [exc |-> "IndexError", value |-> None]
        ELSE [exc |-> "none",
              value |-> lib.modifications[CHOOSE i \in hit : \A j \in hit : i <= j]]

GetItemByPair(lib, original, modified) ==
    LET hit == {i \in 1..Len(lib.modifications) :
                    /\ lib.modifications[i].residue_original_abbreviation = original
                    /\ lib.modifications[i].residue_modified_abbreviation = modified}
    IN  IF hit = {} THEN [exc |-> "IndexError", value |-> None]
        ELSE [exc |-> "none",
              value |-> lib.modifications[CHOOSE i \in hit : \A j \in hit : i <= j]]

\* load_residue_from_pdb gone wrong: the label of the residue is not compared
\* with the target
load_residue_from_pdb_Unchecked(lib, files, target_abbreviation) ==
    IF target_abbreviation \notin DOMAIN lib.target_templates
    THEN [exc |-> "KeyError", logged |-> FALSE, value |-> None]
    ELSE IF Len(files[lib.target_templates[target_abbreviation]]) = 0
    THEN [exc |-> "StopIteration", logged |-> FALSE, value |-> None]
    ELSE [exc |-> "none", logged |-> FALSE,
          value |-> files[lib.target_templates[target_abbreviation]][1]]

\* ModificationLibrary.load_residue_from_pdb; files is the template
\* directory on disk
load_residue_from_pdb(lib, files, target_abbreviation) ==
    IF target_abbreviation \notin DOMAIN lib.target_templates
    THEN [exc |-> "KeyError", logged |-> FALSE, value |-> None]
    ELSE
        LET structure == files[lib.target_templates[target_abbreviation]]
        IN  IF Len(structure) = 0
            THEN [exc |-> "StopIteration", logged |-> FALSE, value |-> None]
            ELSE IF ~IsSubstring(structure[1].resname, target_abbreviation)
            THEN [exc |-> "ValueError", logged |-> TRUE, value |-> None]
            ELSE [exc |-> "none", logged |-> FALSE, value |-> structure[1]]

(***************************************************************************)
(* AnnotatedStructure: the modification log is a table whose rows carry    *)
(* an index label.                                                         *)
(***************************************************************************)
\* the log entry gone wrong: original and target abbreviation are swapped
add_to_modification_log_Swapped(log, residue_number, chain_identifier, original_abbreviation, target_abbreviation) ==
    Append(log, [label |-> Len(log),
                 residue_number |-> residue_number,
                 chain_identifier |-> chain_identifier,
                 original_abbreviation |-> target_abbreviation,
                 target_abbreviation |-> original_abbreviation])

\* modification_log.loc[len(modification_log)] = [...]: sets the rows
\* labelled len, or appends a row under that label when there is none
add_to_modification_log(log, residue_number, chain_identifier, original_abbreviation, target_abbreviation) ==
    LET row == [label |-> Len(log),
                residue_number |-> residue_number,
                chain_identifier |-> chain_identifier,
                original_abbreviation |-> original_abbreviation,
                target_abbreviation |-> target_abbreviation]
    IN  IF \E i \in 1..Len(log) : log[i].label = Len(log)
        THEN AsSeq([i \in 1..Len(log) |-> IF log[i].label = Len(log) THEN row ELSE log[i]])
        ELSE Append(log, row)

\* the index label '' that print_log gives every row; the labels that
\* add_to_modification_log gives are lengths, which are never negative
BlankLabel == -1

\* blankIndex = [''] * len(modification_log); modification_log.index = blankIndex
print_log(log) ==
    AsSeq([i \in 1..Len(log) |-> [log[i] EXCEPT !.label = BlankLabel]])

\* the index labels of the rows with this residue number and chain identifier
MatchingLabels(log, residue_number, chain_identifier) ==
    {log[i].label : i \in {j \in 1..Len(log) :
                            /\ log[j].residue_number = residue_number
                            /\ log[j].chain_identifier = chain_identifier}}

\* the row has one of the labels
Dropped(row, labels) == row.label \in labels

RECURSIVE Drop(_, _)
\* DataFrame.drop(labels, inplace=True): every row under one of the labels goes
Drop(log, labels) ==
    IF log = <<>> THEN <<>>
    ELSE IF Dropped(Head(log), labels) THEN Drop(Tail(log), labels)
    ELSE <<Head(log)>> \o Drop(Tail(log), labels)

\* modification_log.drop(modification_log[(residue_number == r) & (chain_identifier == c)].index)
delete_log_entry(log, residue_number, chain_identifier) ==
    Drop(log, MatchingLabels(log, residue_number, chain_identifier))

(***************************************************************************)
(* copy.deepcopy(structure): every residue and atom of the structure is    *)
(* copied into a fresh object, the log is copied by value.                 *)
(***************************************************************************)
RECURSIVE ReachableAtoms(_, _)
ReachableAtoms(hp, rs) ==
    IF rs = <<>> THEN <<>>
    ELSE hp.residues[rs[1]].atoms \o ReachableAtoms(hp, Tail(rs))

\* deepcopy gone wrong: a shallow copy, whose residues are those of the original
deepcopy_Shallow(hp, h) ==
    [hp EXCEPT !.structs = Append(@, hp.structs[h])]

deepcopy(hp, h) ==
    LET old == hp.structs[h]
        flat == ReachableAtoms(hp, old.residues)
        nA == Len(hp.atoms)
        nR == Len(hp.residues)
        copy_of(a) == nA + (CHOOSE k \in 1..Len(flat) :
                                flat[k] = a /\ \A j \in 1..Len(flat) : flat[j] = a => k <= j)
    IN  [structs |-> Append(hp.structs,
                        [old EXCEPT !.residues =
                            AsSeq([i \in 1..Len(old.residues) |-> nR + i])]),
         residues |-> hp.residues \o
                        [i \in 1..Len(old.residues) |->
                            [hp.residues[old.residues[i]] EXCEPT
                                !.atoms = AsSeq([j \in 1..Len(@) |-> copy_of(@[j])])]],
         atoms |-> hp.atoms \o [k \in 1..Len(flat) |-> hp.atoms[flat[k]]]]

(***************************************************************************)
(* Modifier.apply_modification.  The result names the heap after the       *)
(* call, the exception raised ("none" when the call returned), whether     *)
(* the error was logged, the structure worked on, the residue located in   *)
(* it (0 when none) and the structure returned (0 when the call raised).   *)
(***************************************************************************)
\* the match gone wrong: the chain identifier is not compared
Matches_NumberOnly(hp, r, chain_identifier, residue_number) ==
    hp.residues[r].num = residue_number

\* full_id[2] == chain_identifier and full_id[3][1] == residue_number
Matches(hp, r, chain_identifier, residue_number) ==
    /\ hp.residues[r].chain = chain_identifier
    /\ hp.residues[r].num = residue_number

\* the loop gone wrong: it does not break, the last match is kept
Locate_LastMatch(hp, h, chain_identifier, residue_number) ==
    LET rs == hp.structs[h].residues
        hit == {i \in 1..Len(rs) : Matches(hp, rs[i], chain_identifier, residue_number)}
    IN  IF hit = {} THEN 0 ELSE rs[CHOOSE i \in hit : \A j \in hit : j <= i]

\* the loop over structure.get_residues(): first match, 0 when none
Locate(hp, h, chain_identifier, residue_number) ==
    LET rs == hp.structs[h].residues
        hit == {i \in 1..Len(rs) : Matches(hp, rs[i], chain_identifier, residue_number)}
    IN  IF hit = {} THEN 0 ELSE rs[CHOOSE i \in hit : \A j \in hit : i <= j]

\* the copy made when inplace is False
WorkingCopy(hp, h, inplace) ==
    IF inplace THEN [hp |-> hp, h |-> h]
    ELSE [hp |-> deepcopy(hp, h), h |-> Len(hp.structs) + 1]

Outcome(hp, exc, logged, work, residue, result) ==
    [hp |-> hp, exc |-> exc, logged |-> logged,
     work |-> work, residue |-> residue, result |-> result]

\* residue.resname = target_residue.get_resname() and the log entry, after
\* _execute_modification
Complete(executed, w, residue, original_residue_abbreviation, template_resname, chain_identifier, residue_number, target_abbreviation) ==
    IF executed.exc # "none"
    THEN Outcome(executed.hp, executed.exc, executed.logged, w, residue, 0)
    ELSE Outcome([executed.hp EXCEPT
                    !.residues[residue].resname = template_resname,
                    !.structs[w].log = add_to_modification_log(@,
                        residue_number, chain_identifier,
                        original_residue_abbreviation, target_abbreviation)],
                 "none", FALSE, w, residue, w)

\* the rule and the template are looked up; then the modification is executed
Resolved(stripped, w, residue, modification, target_residue, chain_identifier, residue_number, target_abbreviation) ==
    IF modification.exc # "none"
    THEN Outcome(stripped, modification.exc, FALSE, w, residue, 0)
    ELSE IF target_residue.exc # "none"
    THEN Outcome(stripped, target_residue.exc, target_residue.logged, w, residue, 0)
    ELSE Complete(_execute_modification(stripped, residue, modification.value,
                                        target_residue.value),
                  w, residue, stripped.residues[residue].resname,
                  target_residue.value.resname,
                  chain_identifier, residue_number, target_abbreviation)

\* the hydrogens of the located residue are removed; then the lookups
Stripped(stripped, lib, files, w, residue, chain_identifier, residue_number, target_abbreviation) ==
    Resolved(stripped, w, residue,
             GetItemByPair(lib, stripped.residues[residue].resname, target_abbreviation),
             load_residue_from_pdb(lib, files, target_abbreviation),
             chain_identifier, residue_number, target_abbreviation)

\* the residue is located (0 when there is none)
Located(hp, lib, files, w, residue, chain_identifier, residue_number, target_abbreviation) ==
    IF residue = 0
    THEN Outcome(hp, "ValueError", TRUE, w, 0, 0)
    ELSE Stripped(remove_hydrogens(hp, residue), lib, files, w, residue,
                  chain_identifier, residue_number, target_abbreviation)

\* apply_modification on the structure it works on
OnWorkingCopy(copy, lib, files, chain_identifier, residue_number, target_abbreviation) ==
    Located(copy.hp, lib, files, copy.h,
            Locate(copy.hp, copy.h, chain_identifier, residue_number),
            chain_identifier, residue_number, target_abbreviation)

apply_modification(hp0, lib, files, structure, chain_identifier, residue_number, target_abbreviation, inplace) ==
    OnWorkingCopy(WorkingCopy(hp0, structure, inplace), lib, files,
                  chain_identifier, residue_number, target_abbreviation)

(***************************************************************************)
(* The data of the model: a rule source, a template directory and one      *)
(* parsed structure.  Every residue of the structure is its template       *)
(* geometry moved by a lattice rotation and a shift.                       *)
(***************************************************************************)
\* the name of an atom as the PDB parser stores it in columns 13-16
PdbFullname(name) ==
    IF Len(name) >= 4 THEN name
    ELSE <<" ">> \o name \o [i \in 1..(3 - Len(name)) |-> " "]

PdbAtom(name, element, coord, serial_number, occupancy, bfactor) ==
    [name |-> name, id |-> name, fullname |-> PdbFullname(name),
     coord |-> coord, bfactor |-> bfactor, occupancy |-> occupancy,
     altloc |-> " ", serial_number |-> serial_number, element |-> element]

RotZ == <<<<0, -1, 0>>, <<1, 0, 0>>, <<0, 0, 1>>>>

RotX == <<<<1, 0, 0>>, <<0, 0, -1>>, <<0, 1, 0>>>>

RotY == <<<<0, 0, 1>>, <<0, 1, 0>>, <<-1, 0, 0>>>>

Place(M, shift, v) == Add3(MatVec(M, v), shift)

TemplateAtomOf(name, element, coord) == PdbAtom(name, element, coord, 1, 10, 0)

Backbone ==
    <<TemplateAtomOf(nN, "N", <<0, 0, 0>>),
      TemplateAtomOf(nCA, "C", <<1, 0, 0>>),
      TemplateAtomOf(nCB, "C", <<1, 1, 0>>)>>

TemplateDir ==
    (V3H \o PDB_ENDING :> <<[resname |-> V3H, atoms |-> Backbone \o
                <<TemplateAtomOf(nCGX, "C", <<2, 1, 1>>),
                  TemplateAtomOf(nOG3, "O", <<1, 2, 1>>),
                  TemplateAtomOf(nHG3, "H", <<1, 3, 1>>)>>]>>)
 @@ (SEP \o PDB_ENDING :> <<[resname |-> SEP, atoms |-> Backbone \o
                <<TemplateAtomOf(nOG, "O", <<2, 1, 1>>),
                  TemplateAtomOf(nP, "P", <<3, 1, 1>>),
                  TemplateAtomOf(nO1P, "O", <<3, 2, 1>>)>>]>>)
 @@ (SEPL \o PDB_ENDING :> <<[resname |-> SEP, atoms |-> Backbone \o
                <<TemplateAtomOf(nOG, "O", <<2, 1, 1>>),
                  TemplateAtomOf(nP, "P", <<3, 1, 2>>)>>]>>)
 @@ (DHA \o PDB_ENDING :> <<[resname |-> DHA, atoms |-> Backbone \o
                <<TemplateAtomOf(nCGX, "C", <<2, 1, 1>>)>>]>>)
 @@ (VHX \o PDB_ENDING :> <<[resname |-> VHX, atoms |-> Backbone \o
                <<TemplateAtomOf(nHG1, "H", <<1, 2, 0>>),
                  TemplateAtomOf(nCG2, "C", <<2, 1, -1>>)>>]>>)
 @@ (VWR \o PDB_ENDING :> <<[resname |-> VAL, atoms |-> Backbone]>>)
 @@ (RMB \o <<".", "P", "D", "B">> :> <<[resname |-> RMB, atoms |-> Backbone]>>)
 @@ (<<"n", "o", "t", "e", "s", ".", "t", "x", "t">> :> <<>>)

Same(name) == <<name, name>>

RuleSource ==
    <<[key |-> VAL \o <<"_">> \o V3H,
       atom_mapping |-> <<Same(nN), Same(nCA), Same(nCB), <<nCG1, None>>,
                          <<nCG2, nCGX>>, <<nHB, None>>,
                          <<None, nOG3>>, <<None, nHG3>>>>,
       add_branches |-> <<[anchor_atoms |-> <<nCB, nCA, nCGX, nN>>,
                           weights |-> <<>>,
                           add_atoms |-> <<nOG3, nHG3>>]>>],
      [key |-> SER \o <<"_">> \o SEP,
       atom_mapping |-> <<Same(nN), Same(nCA), Same(nCB), Same(nOG),
                          <<nHG, None>>, <<None, nP>>, <<None, nO1P>>>>,
       add_branches |-> <<[anchor_atoms |-> <<nCB, nCA, nOG>>,
                           weights |-> <<1, 2, 2>>,
                           add_atoms |-> <<nP>>],
                          [anchor_atoms |-> <<nN, nCA, nCB, nOG>>,
                           weights |-> <<1, 1, 1, 1>>,
                           add_atoms |-> <<nO1P>>]>>],
      [key |-> SER \o <<"_">> \o DHA,
       atom_mapping |-> <<Same(nN), Same(nCA), <<nCB, nCGX>>, <<nOG, None>>>>,
       add_branches |-> <<>>],
      [key |-> VAL \o <<"_">> \o VHX,
       atom_mapping |-> <<Same(nN), Same(nCA), Same(nCB), <<nCG2, None>>,
                          <<nCG1, nHG1>>, <<None, nCG2>>>>,
       add_branches |-> <<[anchor_atoms |-> <<nN, nCA, nCB>>,
                           weights |-> <<1, 1, 1>>,
                           add_atoms |-> <<nCG2>>]>>],
      [key |-> SER \o <<"_">> \o SEPL,
       atom_mapping |-> <<Same(nN), Same(nCA), Same(nCB), Same(nOG), <<None, nP>>>>,
       add_branches |-> <<[anchor_atoms |-> <<nCB, nCA, nOG>>,
                           weights |-> <<>>,
                           add_atoms |-> <<nP>>]>>],
      [key |-> VAL \o <<"_">> \o VWR,
       atom_mapping |-> <<Same(nN), Same(nCA), Same(nCB)>>,
       add_branches |-> <<>>]>>

\* a library file whose branches name atoms that are not there: an anchor
\* with no pair in the mapping (VAL_V3H), an anchor the residue lacks
\* (SER_DHA), an anchor the template lacks (VAL_VHX), an atom to add the
\* template lacks, in a second branch (SER_SEP), a second branch anchored
\* on an atom the mapping marks as new (SER_SEPL), a second branch with one
\* anchor and an atom to add the template lacks (SER_VHX), and a branch with
\* one anchor and nothing missing (VAL_SEP)
FaultyRuleSource ==
    <<[key |-> VAL \o <<"_">> \o V3H,
       atom_mapping |-> <<Same(nN), Same(nCA), Same(nCB), <<nCG1, None>>,
                          <<nCG2, nCGX>>>>,
       add_branches |-> <<[anchor_atoms |-> <<nCB, nCA, nOG3>>,
                           weights |-> <<>>,
                           add_atoms |-> <<nHG3>>]>>],
      [key |-> SER \o <<"_">> \o SEP,
       atom_mapping |-> <<Same(nN), Same(nCA), Same(nCB), Same(nOG),
                          <<nHG, None>>, <<None, nP>>>>,
       add_branches |-> <<[anchor_atoms |-> <<nCB, nCA, nOG>>,
                           weights |-> <<1, 2, 2>>,
                           add_atoms |-> <<nP>>],
                          [anchor_atoms |-> <<nN, nCA, nCB, nOG>>,
                           weights |-> <<1, 1, 1, 1>>,
                           add_atoms |-> <<nHG3>>]>>],
      [key |-> SER \o <<"_">> \o DHA,
       atom_mapping |-> <<Same(nN), Same(nCA), <<nCG1, nCB>>, <<nOG, None>>>>,
       add_branches |-> <<[anchor_atoms |-> <<nN, nCA, nCB>>,
                           weights |-> <<>>,
                           add_atoms |-> <<>>]>>],
      [key |-> VAL \o <<"_">> \o VHX,
       atom_mapping |-> <<Same(nN), Same(nCA), Same(nCB), Same(nCG1),
                          <<nCG2, None>>>>,
       add_branches |-> <<[anchor_atoms |-> <<nN, nCA, nCG1>>,
                           weights |-> <<1, 1, 1>>,
                           add_atoms |-> <<nCG2>>]>>],
      [key |-> SER \o <<"_">> \o SEPL,
       atom_mapping |-> <<Same(nN), Same(nCA), Same(nCB), Same(nOG), <<None, nP>>>>,
       add_branches |-> <<[anchor_atoms |-> <<nCB, nCA, nOG>>,
                           weights |-> <<>>,
                           add_atoms |-> <<nP>>],
                          [anchor_atoms |-> <<nCA, nP>>,
                           weights |-> <<>>,
                           add_atoms |-> <<>>]>>],
      [key |-> SER \o <<"_">> \o VHX,
       atom_mapping |-> <<Same(nN), Same(nCA), Same(nCB), <<None, nCG2>>>>,
       add_branches |-> <<[anchor_atoms |-> <<nN, nCA, nCB>>,
                           weights |-> <<>>,
                           add_atoms |-> <<nCG2>>],
                          [anchor_atoms |-> <<nCA>>,
                           weights |-> <<>>,
                           add_atoms |-> <<nP>>]>>],
      [key |-> VAL \o <<"_">> \o SEP,
       atom_mapping |-> <<Same(nN), Same(nCA), Same(nCB), <<None, nP>>>>,
       add_branches |-> <<[anchor_atoms |-> <<nCB>>,
                           weights |-> <<>>,
                           add_atoms |-> <<nP>>]>>]>>

\* residue 1 of chain A: a valine
AtomsA1 ==
    <<PdbAtom(nN, "N", Place(RotZ, <<5, 5, 5>>, <<0, 0, 0>>), 1, 10, 21),
      PdbAtom(nH, "H", Place(RotZ, <<5, 5, 5>>, <<-1, 0, 0>>), 2, 10, 22),
      PdbAtom(nCA, "C", Place(RotZ, <<5, 5, 5>>, <<1, 0, 0>>), 3, 10, 23),
      PdbAtom(nCB, "C", Place(RotZ, <<5, 5, 5>>, <<1, 1, 0>>), 4, 10, 24),
      PdbAtom(nHB, "H", Place(RotZ, <<5, 5, 5>>, <<1, 1, -1>>), 5, 10, 25),
      PdbAtom(nCG1, "C", Place(RotZ, <<5, 5, 5>>, <<1, 2, 0>>), 6, 5, 26),
      PdbAtom(nCG2, "C", Place(RotZ, <<5, 5, 5>>, <<2, 1, 1>>), 7, 5, 27)>>

\* residue 2 of chain A: a serine
AtomsA2 ==
    <<PdbAtom(nN, "N", Place(RotX, <<-3, 2, 7>>, <<0, 0, 0>>), 8, 10, 31),
      PdbAtom(nCA, "C", Place(RotX, <<-3, 2, 7>>, <<1, 0, 0>>), 9, 10, 32),
      PdbAtom(nCB, "C", Place(RotX, <<-3, 2, 7>>, <<1, 1, 0>>), 10, 10, 33),
      PdbAtom(nOG, "O", Place(RotX, <<-3, 2, 7>>, <<2, 1, 1>>), 11, 5, 34),
      PdbAtom(nHG, "H", Place(RotX, <<-3, 2, 7>>, <<3, 1, 1>>), 12, 5, 35)>>

\* residue 1 of chain B: a serine
AtomsB1 ==
    <<PdbAtom(nN, "N", Place(RotY, <<9, -4, 1>>, <<0, 0, 0>>), 13, 10, 41),
      PdbAtom(nCA, "C", Place(RotY, <<9, -4, 1>>, <<1, 0, 0>>), 14, 10, 42),
      PdbAtom(nCB, "C", Place(RotY, <<9, -4, 1>>, <<1, 1, 0>>), 15, 10, 43),
      PdbAtom(nOG, "O", Place(RotY, <<9, -4, 1>>, <<2, 1, 1>>), 16, 10, 44),
      PdbAtom(nH, "H", Place(RotY, <<9, -4, 1>>, <<-1, 0, 0>>), 17, 10, 45)>>

ParsedResidue(chain, num, resname, first, count) ==
    [model |-> 0, chain |-> chain, het |-> " ", num |-> num, icode |-> " ",
     resname |-> resname, atoms |-> AsSeq([i \in 1..count |-> first + i - 1])]

Chains == {"A", "B"}

ResidueNumbers == {1, 2}

Targets == {V3H, SEP, DHA, VHX, SEPL, VWR, RMB}

Originals == {VAL, SER, V3H}

(***************************************************************************)
(* The state machine.  held is the set of structures the caller holds;     *)
(* last describes the most recent call: its arguments, the heap before it  *)
(* and its outcome.                                                        *)
(***************************************************************************)
Init ==
    /\ scipy = AnyScipy
    /\ atoms = AtomsA1 \o AtomsA2 \o AtomsB1
    /\ residues = <<ParsedResidue("A", 1, VAL, 1, Len(AtomsA1)),
                    ParsedResidue("A", 2, SER, Len(AtomsA1) + 1, Len(AtomsA2)),
                    ParsedResidue("B", 1, SER, Len(AtomsA1) + Len(AtomsA2) + 1,
                                  Len(AtomsB1))>>
    /\ structs = <<[residues |-> <<1, 2, 3>>, log |-> <<>>]>>
    /\ held = {1}
    /\ library = LoadLibrary(RuleSource, TemplateDir)
    /\ last = [op |-> "none"]
    /\ calls = 0
    /\ procs = <<>>

\* the new state after a call of apply_modification with outcome out
Called(out, h, chain_identifier, residue_number, target_abbreviation, inplace) ==
    /\ structs' = out.hp.structs
    /\ residues' = out.hp.residues
    /\ atoms' = out.hp.atoms
    /\ held' = IF out.result = 0 THEN held ELSE held \cup {out.result}
    /\ last' = [op |-> "apply", structure |-> h,
                chain_identifier |-> chain_identifier,
                residue_number |-> residue_number,
                target_abbreviation |-> target_abbreviation,
                inplace |-> inplace, pre |-> Heap,
                exc |-> out.exc, logged |-> out.logged, work |-> out.work,
                residue |-> out.residue, result |-> out.result]
    /\ calls' = calls + 1
    /\ UNCHANGED <<scipy, library, procs>>

\* modifier.apply_modification(structure, chain, number, target, inplace)
ApplyModification ==
    \E h \in held, chain_identifier \in Chains, residue_number \in ResidueNumbers,
       target_abbreviation \in Targets, inplace \in BOOLEAN :
        /\ calls < MaxCalls
        /\ Called(apply_modification(Heap, library, TemplateDir, h, chain_identifier,
                                     residue_number, target_abbreviation, inplace),
                  h, chain_identifier, residue_number, target_abbreviation, inplace)

\* the new state after a lookup with result got
LookedUp(got, original, modified) ==
    /\ last' = [op |-> "getitem", original |-> original, modified |-> modified,
                exc |-> got.exc, value |-> got.value]
    /\ calls' = calls + 1
    /\ UNCHANGED <<scipy, structs, residues, atoms, held, library, procs>>

\* library[original, modified]
LookupByPair ==
    \E original \in Originals, modified \in Targets :
        /\ calls < MaxCalls
        /\ LookedUp(GetItemByPair(library, original, modified), original, modified)

\* the new state after a caller's own call of remove_hydrogens on a residue
HydrogensRemoved(hp, h, residue) ==
    /\ structs' = hp.structs
    /\ residues' = hp.residues
    /\ atoms' = hp.atoms
    /\ last' = [op |-> "remove_hydrogens", structure |-> h, residue |-> residue,
                pre |-> Heap, exc |-> "none", logged |-> FALSE]
    /\ calls' = calls + 1
    /\ UNCHANGED <<scipy, held, library, procs>>

\* Modifier.remove_hydrogens(residue), called on its own by the holder of a
\* structure on one of its residues: no lookup, no relabel, no log entry
RemoveHydrogens ==
    \E h \in held : \E i \in DOMAIN structs[h].residues :
        /\ calls < MaxCalls
        /\ HydrogensRemoved(remove_hydrogens(Heap, structs[h].residues[i]),
                            h, structs[h].residues[i])

Next == ApplyModification \/ LookupByPair \/ RemoveHydrogens

Spec == Init /\ [][Next]_vars

(***************************************************************************)
(* The same calls on a Modifier whose library was loaded from a file with  *)
(* faulty branches.                                                        *)
(***************************************************************************)
InitFaulty ==
    /\ scipy \in ScipyBuilds
    /\ atoms = AtomsA1 \o AtomsA2 \o AtomsB1
    /\ residues = <<ParsedResidue("A", 1, VAL, 1, Len(AtomsA1)),
                    ParsedResidue("A", 2, SER, Len(AtomsA1) + 1, Len(AtomsA2)),
                    ParsedResidue("B", 1, SER, Len(AtomsA1) + Len(AtomsA2) + 1,
                                  Len(AtomsB1))>>
    /\ structs = <<[residues |-> <<1, 2, 3>>, log |-> <<>>]>>
    /\ held = {1}
    /\ library = LoadLibrary(FaultyRuleSource, TemplateDir)
    /\ last = [op |-> "none"]
    /\ calls = 0
    /\ procs = <<>>

SpecFaulty == InitFaulty /\ [][Next]_vars

(***************************************************************************)
(* The log of one structure under add_to_modification_log,                 *)
(* delete_log_entry and print_log, called directly.                        *)
(***************************************************************************)
MaxLogCalls == 4

\* the entries added: residue number, chain, original and target abbreviation
LogEntries == {<<1, "A", VAL, V3H>>, <<2, "A", SER, SEP>>, <<1, "B", SER, DHA>>}

\* a call on the log of structure h has returned, leaving new_log
LogCalled(h, call, new_log) ==
    /\ calls < MaxLogCalls
    /\ calls' = calls + 1
    /\ structs' = [structs EXCEPT ![h].log = new_log]
    /\ last' = call
    /\ UNCHANGED <<scipy, residues, atoms, held, library, procs>>

AddLog ==
    \E h \in held, e \in LogEntries :
        LogCalled(h, [op |-> "add", structure |-> h,
                      residue_number |-> e[1], chain_identifier |-> e[2],
                      original_abbreviation |-> e[3], target_abbreviation |-> e[4]],
                  add_to_modification_log(structs[h].log, e[1], e[2], e[3], e[4]))

DeleteLog ==
    \E h \in held, residue_number \in ResidueNumbers, chain_identifier \in Chains :
        LogCalled(h, [op |-> "delete", structure |-> h,
                      residue_number |-> residue_number,
                      chain_identifier |-> chain_identifier],
                  delete_log_entry(structs[h].log, residue_number, chain_identifier))

PrintLog ==
    \E h \in held :
        LogCalled(h, [op |-> "print", structure |-> h], print_log(structs[h].log))

NextLog == AddLog \/ DeleteLog \/ PrintLog

SpecLog == Init /\ [][NextLog]_vars

(***************************************************************************)
(* Two invocations of apply_modification that share one library and run on *)
(* two structures, one statement group at a time.  procs[p] is invocation  *)
(* p: its arguments, the statement it is at (pc) and its local variables.  *)
(***************************************************************************)
\* two structures: chain A (a valine, a serine) and chain B (a serine)
ConcurrentHeap ==
    [structs |-> <<[residues |-> <<1, 2>>, log |-> <<>>],
                   [residues |-> <<3>>, log |-> <<>>]>>,
     residues |-> <<ParsedResidue("A", 1, VAL, 1, Len(AtomsA1)),
                    ParsedResidue("A", 2, SER, Len(AtomsA1) + 1, Len(AtomsA2)),
                    ParsedResidue("B", 1, SER, Len(AtomsA1) + Len(AtomsA2) + 1,
                                  Len(AtomsB1))>>,
     atoms |-> AtomsA1 \o AtomsA2 \o AtomsB1]

\* invocation p at its first statement, on structure p
Started(p, chain_identifier, residue_number, target_abbreviation, inplace) ==
    [pc |-> "copy", structure |-> p,
     chain_identifier |-> chain_identifier, residue_number |-> residue_number,
     target_abbreviation |-> target_abbreviation, inplace |-> inplace,
     work |-> 0, residue |-> 0, original |-> None, modification |-> None,
     template |-> None, k |-> 0, exc |-> "none", logged |-> FALSE, result |-> 0]

Requests == Chains \X ResidueNumbers \X Targets \X BOOLEAN

InitConcurrent ==
    /\ scipy = AnyScipy
    /\ structs = ConcurrentHeap.structs
    /\ residues = ConcurrentHeap.residues
    /\ atoms = ConcurrentHeap.atoms
    /\ held = {1, 2}
    /\ library = LoadLibrary(RuleSource, TemplateDir)
    /\ last = [op |-> "none"]
    /\ calls = 0
    /\ \E a \in Requests, b \in Requests :
            procs = <<Started(1, a[1], a[2], a[3], a[4]),
                      Started(2, b[1], b[2], b[3], b[4])>>

SetHeap(hp) ==
    /\ structs' = hp.structs
    /\ residues' = hp.residues
    /\ atoms' = hp.atoms

\* the exception leaves invocation p
Raised(p, exc, logged) ==
    procs' = [procs EXCEPT ![p].pc = "raised", ![p].exc = exc, ![p].logged = logged]

\* if not inplace: structure = deepcopy(structure)
CopyStep(p) ==
    /\ procs[p].pc = "copy"
    /\ SetHeap(WorkingCopy(Heap, procs[p].structure, procs[p].inplace).hp)
    /\ procs' = [procs EXCEPT ![p].pc = "locate",
                              ![p].work = WorkingCopy(Heap, procs[p].structure,
                                                      procs[p].inplace).h]
    /\ UNCHANGED <<scipy, held, library, last, calls>>

\* the loop over structure.get_residues(), and the error when none matches
LocateStep(p) ==
    /\ procs[p].pc = "locate"
    /\ IF Locate(Heap, procs[p].work, procs[p].chain_identifier,
                 procs[p].residue_number) = 0
       THEN Raised(p, "ValueError", TRUE)
       ELSE procs' = [procs EXCEPT ![p].pc = "strip",
                        ![p].residue = Locate(Heap, procs[p].work,
                                              procs[p].chain_identifier,
                                              procs[p].residue_number)]
    /\ UNCHANGED <<scipy, structs, residues, atoms, held, library, last, calls>>

\* self.remove_hydrogens(residue)
StripStep(p) ==
    /\ procs[p].pc = "strip"
    /\ SetHeap(remove_hydrogens(Heap, procs[p].residue))
    /\ procs' = [procs EXCEPT ![p].pc = "rule"]
    /\ UNCHANGED <<scipy, held, library, last, calls>>

\* invocation p after the lookup of its rule with result got
RuleFound(p, got, original_residue_abbreviation) ==
    IF got.exc # "none" THEN Raised(p, got.exc, FALSE)
    ELSE procs' = [procs EXCEPT ![p].pc = "template",
                                ![p].original = original_residue_abbreviation,
                                ![p].modification = got.value]

\* original_residue_abbreviation = residue.get_resname()
\* modification = self._library[original_residue_abbreviation, target_abbreviation]
RuleStep(p) ==
    /\ procs[p].pc = "rule"
    /\ RuleFound(p, GetItemByPair(library, residues[procs[p].residue].resname,
                                  procs[p].target_abbreviation),
                 residues[procs[p].residue].resname)
    /\ UNCHANGED <<scipy, structs, residues, atoms, held, library, last, calls>>

\* invocation p after the load of its template with result got
TemplateFound(p, got) ==
    IF got.exc # "none" THEN Raised(p, got.exc, got.logged)
    ELSE procs' = [procs EXCEPT
                    ![p].pc = IF Len(procs[p].modification.add_branches) = 0
                              THEN "relabel" ELSE "branch",
                    ![p].template = got.value,
                    ![p].k = 1]

\* target_residue = self._library.load_residue_from_pdb(target_abbreviation)
TemplateStep(p) ==
    /\ procs[p].pc = "template"
    /\ TemplateFound(p, load_residue_from_pdb(library, TemplateDir,
                                              procs[p].target_abbreviation))
    /\ UNCHANGED <<scipy, structs, residues, atoms, held, library, last, calls>>

\* invocation p after an iteration of the loop over add_branches with outcome out
BranchDone(p, out) ==
    /\ SetHeap(out.hp)
    /\ IF out.exc # "none" THEN Raised(p, out.exc, out.logged)
       ELSE procs' = [procs EXCEPT
                        ![p].pc = IF procs[p].k = Len(procs[p].modification.add_branches)
                                  THEN "relabel" ELSE "branch",
                        ![p].k = procs[p].k + 1]

\* one iteration of the loop over modification.add_branches
BranchStep(p) ==
    /\ procs[p].pc = "branch"
    /\ BranchDone(p, ExecuteBranch(Heap, procs[p].residue, procs[p].modification,
                                   procs[p].template,
                                   procs[p].modification.add_branches[procs[p].k],
                                   procs[p].k = 1))
    /\ UNCHANGED <<scipy, held, library, last, calls>>

\* residue.resname = target_residue.get_resname()
RelabelStep(p) ==
    /\ procs[p].pc = "relabel"
    /\ residues' = [residues EXCEPT ![procs[p].residue].resname =
                                        procs[p].template.resname]
    /\ procs' = [procs EXCEPT ![p].pc = "log"]
    /\ UNCHANGED <<scipy, structs, atoms, held, library, last, calls>>

\* structure.add_to_modification_log(...); return structure
LogStep(p) ==
    /\ procs[p].pc = "log"
    /\ structs' = [structs EXCEPT ![procs[p].work].log =
                        add_to_modification_log(@, procs[p].residue_number,
                                                procs[p].chain_identifier,
                                                procs[p].original,
                                                procs[p].target_abbreviation)]
    /\ procs' = [procs EXCEPT ![p].pc = "done", ![p].result = procs[p].work]
    /\ held' = held \cup {procs[p].work}
    /\ UNCHANGED <<scipy, residues, atoms, library, last, calls>>

\* the two invocations
Invocations == {1, 2}

NextConcurrent ==
    \E p \in Invocations :
        \/ CopyStep(p)
        \/ LocateStep(p)
        \/ StripStep(p)
        \/ RuleStep(p)
        \/ TemplateStep(p)
        \/ BranchStep(p)
        \/ RelabelStep(p)
        \/ LogStep(p)

SpecConcurrent == InitConcurrent /\ [][NextConcurrent]_vars

(***************************************************************************)
(* The same calls on a Modifier whose library has rules with several       *)
(* branches and with renames: two branches that both succeed after a       *)
(* deletion and a rename (VAL_V3H), a deleted name that the first branch   *)
(* adds again (VAL_VHX), a second branch anchored on an atom the mapping    *)
(* renames (SER_V3H), a rename of a hydrogen after a deletion of an absent *)
(* atom and a rename (SER_SEP), a rename onto a name the residue holds     *)
(* (SER_DHA), and a rule whose target has no template file (SER_RMB).      *)
(***************************************************************************)
BranchedRuleSource ==
    <<[key |-> VAL \o <<"_">> \o V3H,
       atom_mapping |-> <<Same(nN), Same(nCA), Same(nCB), <<nCG1, None>>,
                          <<nCG2, nCGX>>, <<nHB, None>>,
                          <<None, nOG3>>, <<None, nHG3>>>>,
       add_branches |-> <<[anchor_atoms |-> <<nCB, nCA, nCGX, nN>>,
                           weights |-> <<>>,
                           add_atoms |-> <<nOG3>>],
                          [anchor_atoms |-> <<nN, nCA, nCB>>,
                           weights |-> <<1, 1, 2>>,
                           add_atoms |-> <<nHG3>>]>>],
      [key |-> VAL \o <<"_">> \o VHX,
       atom_mapping |-> <<Same(nN), Same(nCA), Same(nCB), <<nCG1, None>>,
                          <<nCG2, None>>, <<None, nCG2>>, <<None, nHG1>>>>,
       add_branches |-> <<[anchor_atoms |-> <<nN, nCA, nCB>>,
                           weights |-> <<>>,
                           add_atoms |-> <<nCG2>>],
                          [anchor_atoms |-> <<nN, nCA, nCB>>,
                           weights |-> <<>>,
                           add_atoms |-> <<nHG1>>]>>],
      [key |-> SER \o <<"_">> \o V3H,
       atom_mapping |-> <<Same(nN), Same(nCA), <<nCB, None>>, <<nOG, nCGX>>,
                          <<None, nOG3>>, <<None, nHG3>>>>,
       add_branches |-> <<[anchor_atoms |-> <<nN, nCA, nCGX>>,
                           weights |-> <<>>,
                           add_atoms |-> <<nOG3>>],
                          [anchor_atoms |-> <<nN, nCA, nCGX>>,
                           weights |-> <<>>,
                           add_atoms |-> <<nHG3>>]>>],
      [key |-> SER \o <<"_">> \o SEP,
       atom_mapping |-> <<Same(nN), Same(nCA), Same(nCB), <<nHB, None>>,
                          <<nOG, nO1P>>, <<nHG, nHG1>>, <<None, nOG>>>>,
       add_branches |-> <<[anchor_atoms |-> <<nN, nCA, nCB>>,
                           weights |-> <<>>,
                           add_atoms |-> <<nOG>>]>>],
      [key |-> SER \o <<"_">> \o DHA,
       atom_mapping |-> <<Same(nN), Same(nCA), <<nOG, nCB>>, Same(nCB),
                          <<None, nCGX>>>>,
       add_branches |-> <<[anchor_atoms |-> <<nN, nCA, nCB>>,
                           weights |-> <<>>,
                           add_atoms |-> <<nCGX>>]>>],
      [key |-> SER \o <<"_">> \o RMB,
       atom_mapping |-> <<Same(nN), Same(nCA), Same(nCB)>>,
       add_branches |-> <<>>]>>

InitBranched ==
    /\ scipy = AnyScipy
    /\ atoms = AtomsA1 \o AtomsA2 \o AtomsB1
    /\ residues = <<ParsedResidue("A", 1, VAL, 1, Len(AtomsA1)),
                    ParsedResidue("A", 2, SER, Len(AtomsA1) + 1, Len(AtomsA2)),
                    ParsedResidue("B", 1, SER, Len(AtomsA1) + Len(AtomsA2) + 1,
                                  Len(AtomsB1))>>
    /\ structs = <<[residues |-> <<1, 2, 3>>, log |-> <<>>]>>
    /\ held = {1}
    /\ library = LoadLibrary(BranchedRuleSource, TemplateDir)
    /\ last = [op |-> "none"]
    /\ calls = 0
    /\ procs = <<>>

SpecBranched == InitBranched /\ [][Next]_vars

(***************************************************************************)
(* The same calls on a structure in which several residues have the same  *)
(* chain identifier and sequence number: A:1 twice in model 0, the second  *)
(* with an insertion code, and B:1 as a hetero residue in model 0 and as a *)
(* plain residue in model 1.  Traversal is by model, chain and residue.    *)
(***************************************************************************)
TwinResidues ==
    <<ParsedResidue("A", 1, VAL, 1, Len(AtomsA1)),
      [ParsedResidue("A", 1, SER, Len(AtomsA1) + 1, Len(AtomsA2))
            EXCEPT !.icode = "A"],
      [ParsedResidue("B", 1, SER, Len(AtomsA1) + Len(AtomsA2) + 1, Len(AtomsB1))
            EXCEPT !.het = "H_SER"],
      [ParsedResidue("B", 1, SER, Len(AtomsA1) + Len(AtomsA2) + Len(AtomsB1) + 1,
                     Len(AtomsB1))
            EXCEPT !.model = 1]>>

InitTwins ==
    /\ scipy = AnyScipy
    /\ atoms = AtomsA1 \o AtomsA2 \o AtomsB1 \o AtomsB1
    /\ residues = TwinResidues
    /\ structs = <<[residues |-> <<1, 2, 3, 4>>, log |-> <<>>]>>
    /\ held = {1}
    /\ library = LoadLibrary(RuleSource, TemplateDir)
    /\ last = [op |-> "none"]
    /\ calls = 0
    /\ procs = <<>>

SpecTwins == InitTwins /\ [][Next]_vars

(***************************************************************************)
(* Loading a library: a library file is drawn, then the constructor of     *)
(* ModificationLibrary runs on it.                                         *)
(***************************************************************************)
MaxPairs == 2

MaxAnchors == 2

\* the names an atom_mapping pair of a drawn file is made of
MappingNames == {nN, nCA, None}

Mappings ==
    UNION {[1..n -> MappingNames \X MappingNames] : n \in 0..MaxPairs}

\* the branches of a drawn file: up to MaxAnchors anchors, and no weight or
\* up to MaxAnchors + 1 weights
DrawnBranches ==
    {[anchor_atoms |-> a, weights |-> w, add_atoms |-> <<>>] :
        a \in UNION {[1..n -> {nN, nCA}] : n \in 0..MaxAnchors},
        w \in UNION {[1..n -> {1, 2}] : n \in 0..(MaxAnchors + 1)}}

\* the library files drawn: one entry with a drawn mapping, one entry with a
\* drawn branch, one entry whose key has no or two underscores, and the two
\* files of the other specifications
RuleSources ==
    {<<[key |-> VAL \o <<"_">> \o V3H, atom_mapping |-> AsSeq(m),
        add_branches |-> <<>>]>> : m \in Mappings}
    \cup {<<[key |-> VAL \o <<"_">> \o V3H,
             atom_mapping |-> <<Same(nN), Same(nCA)>>,
             add_branches |-> <<[b EXCEPT !.anchor_atoms = AsSeq(@),
                                          !.weights = AsSeq(@)]>>]>> :
                b \in DrawnBranches}
    \cup {<<[key |-> k, atom_mapping |-> <<Same(nN)>>, add_branches |-> <<>>]>> :
                k \in {VAL \o V3H, VAL \o <<"_">> \o V3H \o <<"_">> \o SEP}}
    \cup {RuleSource, FaultyRuleSource}

\* the fields of a ModificationLibrary before _load_library has run
EmptyLibrary == [modifications |-> <<>>, target_templates |-> <<>>]

InitLoad ==
    /\ scipy = AnyScipy
    /\ atoms = <<>>
    /\ residues = <<>>
    /\ structs = <<>>
    /\ held = {}
    /\ library = EmptyLibrary
    /\ calls = 0
    /\ procs = <<>>
    /\ \E rule_source \in RuleSources :
            last = [op |-> "input", rule_source |-> rule_source]

\* the new state after the constructor has run with outcome got
Constructed(got) ==
    /\ library' = IF got.exc = "none" THEN got.library ELSE library
    /\ last' = [op |-> "load", rule_source |-> last.rule_source,
                exc |-> got.exc, logged |-> got.logged]
    /\ calls' = calls + 1
    /\ UNCHANGED <<scipy, structs, residues, atoms, held, procs>>

\* ModificationLibrary(library_path, pdbs_minimized)
ConstructLibrary ==
    /\ last.op = "input"
    /\ Constructed(Construct(last.rule_source, Directory(TemplateDir)))

NextLoad == ConstructLibrary

SpecLoad == InitLoad /\ [][NextLoad]_vars

(***************************************************************************)
(* The alignment engine on its own: compute_alignment_transform on drawn   *)
(* point sets and weights, then apply_transform on the template points.    *)
(***************************************************************************)
MaxPoints == 2

Points == {<<0, 0, 0>>, <<2, 0, 0>>, <<0, 2, 0>>}

Weights == {-1, 0, 1, 2}

\* the outcome of the call is in the model: it raises, or some optimal
\* rotation is a lattice rotation and the translation of each of them is a
\* lattice vector
OnLattice(coord_reference, coord_template, weights) ==
    \/ SumSeq(weights) = 0
    \/ \E i \in 1..Len(weights) : weights[i] < 0
    \/ /\ OptimalRotations(Centered(coord_reference, weights),
                           Centered(coord_template, weights), weights) # {}
       /\ \A M \in OptimalRotations(Centered(coord_reference, weights),
                                    Centered(coord_template, weights), weights) :
            LatticeTranslation(M, coord_reference, coord_template, weights)

\* equally long sequences of reference points, template points and weights
AlignInputs ==
    {input \in UNION {[1..n -> Points] \X [1..n -> Points] \X [1..n -> Weights] :
                        n \in 1..MaxPoints} :
        OnLattice(AsSeq(input[1]), AsSeq(input[2]), AsSeq(input[3]))}

InitAlign ==
    /\ scipy = AnyScipy
    /\ atoms = <<>>
    /\ residues = <<>>
    /\ structs = <<>>
    /\ held = {}
    /\ library = EmptyLibrary
    /\ calls = 0
    /\ procs = <<>>
    /\ \E input \in AlignInputs :
            last = [op |-> "input", coord_reference |-> AsSeq(input[1]),
                    coord_template |-> AsSeq(input[2]), weights |-> AsSeq(input[3])]

\* compute_alignment_transform has returned the pair transform
Returns(transform) == [exc |-> "none", transform |-> transform]

\* compute_alignment_transform has raised
Raises(exc) == [exc |-> exc, transform |-> [M_rotation |-> Identity3, v_translation |-> Zero3]]

\* the returns of compute_alignment_transform, one for every rotation
\* align_vectors can answer with
Optima(coord_reference, coord_template, weights) ==
    {Returns(TransformOf(M, coord_reference, coord_template, weights)) :
        M \in OptimalRotations(Centered(coord_reference, weights),
                               Centered(coord_template, weights), weights)}

\* The ways a call of compute_alignment_transform can end.  np.average
\* raises ZeroDivisionError for weights that sum to zero, align_vectors
\* raises ValueError for a negative weight; for a single pair of points the
\* centered vectors are zero, which align_vectors either rejects with
\* ValueError or answers with a rotation, depending on its version.  Where
\* several rotations are optimal the decomposition decides which is returned.
Alignments(coord_reference, coord_template, weights) ==
    IF SumSeq(weights) = 0 THEN {Raises("ZeroDivisionError")}
    ELSE IF \E i \in 1..Len(weights) : weights[i] < 0 THEN {Raises("ValueError")}
    ELSE IF Len(weights) = 1
    THEN {Raises("ValueError")} \cup Optima(coord_reference, coord_template, weights)
    ELSE Optima(coord_reference, coord_template, weights)

\* the new state after the call has ended with got
AlignedWith(got) ==
    /\ last' = [op |-> "align", coord_reference |-> last.coord_reference,
                coord_template |-> last.coord_template, weights |-> last.weights,
                exc |-> got.exc, M_rotation |-> got.transform.M_rotation,
                v_translation |-> got.transform.v_translation,
                transformed |-> IF got.exc = "none"
                                THEN Aligned(last.coord_template, got.transform).value
                                ELSE <<>>]
    /\ calls' = calls + 1
    /\ UNCHANGED <<scipy, structs, residues, atoms, held, library, procs>>

\* M, t = compute_alignment_transform(reference, template, weights)
\* transformed = apply_transform(template, M, t)
Align ==
    /\ last.op = "input"
    /\ \E got \in Alignments(last.coord_reference, last.coord_template, last.weights) :
            AlignedWith(got)

NextAlign == Align

SpecAlign == InitAlign /\ [][NextAlign]_vars

(***************************************************************************)
(* The library on its own: the calls a holder of a ModificationLibrary can *)
(* make on it, with no structure involved.                                 *)
(***************************************************************************)
MaxIndex == 7

Indexes == (-MaxIndex)..MaxIndex

\* the new state after library[index] with result got
IndexedAt(got, index) ==
    /\ last' = [op |-> "getindex", index |-> index,
                exc |-> got.exc, value |-> got.value]
    /\ calls' = calls + 1
    /\ UNCHANGED <<scipy, structs, residues, atoms, held, library, procs>>

\* library[index]
LookupByIndex ==
    \E index \in Indexes :
        /\ calls < MaxCalls
        /\ IndexedAt(GetItemByIndex(library, index), index)

MaxResidues == 2

\* the residues a template file on disk may hold
FileResidues ==
    {[resname |-> SEP, atoms |-> Backbone],
     [resname |-> DHA, atoms |-> Backbone],
     [resname |-> VAL, atoms |-> Backbone]}

\* the template files: no residue, or up to MaxResidues of them
TemplateFiles ==
    UNION {[1..n -> FileResidues] : n \in 0..MaxResidues}

\* the new state after load_residue_from_pdb with result got, the file
\* registered for the target holding the residues of file
TemplateLoaded(got, target_abbreviation, file) ==
    /\ last' = [op |-> "template", target_abbreviation |-> target_abbreviation,
                file |-> file, exc |-> got.exc, logged |-> got.logged,
                value |-> got.value]
    /\ calls' = calls + 1
    /\ UNCHANGED <<scipy, structs, residues, atoms, held, library, procs>>

\* library.load_residue_from_pdb(target_abbreviation)
LoadTemplate ==
    \E target_abbreviation \in Targets, file \in TemplateFiles :
        /\ calls < MaxCalls
        /\ TemplateLoaded(
                load_residue_from_pdb(library,
                                      (target_abbreviation \o PDB_ENDING :> AsSeq(file)) @@ TemplateDir,
                                      target_abbreviation),
                target_abbreviation, AsSeq(file))

\* the values a caller puts into the library
Replacements ==
    {ParseModification(RuleSource[3]), ParseModification(FaultyRuleSource[1])}

\* the new state after library[index] = value with outcome got
Replaced(got, index, value) ==
    /\ library' = got.library
    /\ last' = [op |-> "setitem", index |-> index, value |-> value, exc |-> got.exc]
    /\ calls' = calls + 1
    /\ UNCHANGED <<scipy, structs, residues, atoms, held, procs>>

\* library[index] = value
ReplaceAt ==
    \E index \in Indexes, value \in Replacements :
        /\ calls < MaxCalls
        /\ Replaced(SetItem(library, index, value), index, value)

\* len(library)
TakeLen ==
    /\ calls < MaxCalls
    /\ last' = [op |-> "len", exc |-> "none", value |-> LenOf(library)]
    /\ calls' = calls + 1
    /\ UNCHANGED <<scipy, structs, residues, atoms, held, library, procs>>

\* list(library)
Iterate ==
    /\ calls < MaxCalls
    /\ last' = [op |-> "iter", exc |-> "none", value |-> IterOf(library)]
    /\ calls' = calls + 1
    /\ UNCHANGED <<scipy, structs, residues, atoms, held, library, procs>>

NextLibrary ==
    LookupByPair \/ LookupByIndex \/ LoadTemplate \/ ReplaceAt \/ TakeLen \/ Iterate

SpecLibrary == Init /\ [][NextLibrary]_vars

(***************************************************************************)
(* The constructor with its two optional paths.  A path is None, the empty *)
(* string <<>> or the name of a file or directory on disk.                 *)
(***************************************************************************)
\* the attributes of the module-level fixtures object (fixtures.py 22-55)
Fixtures ==
    [LATEST_PTMS_VERSION_DATE |-> <<"2025-12-18">>,
     LATEST_PTMS_LIBRARY_PATH |-> <<"library.json">>,
     LATEST_PTMS_PDBS_DIR_PATH |-> <<"pdbs_minimized">>,
     PDB_ENDING |-> PDB_ENDING,
     GROMACS_MINIM_MDP_DEFAULT |-> <<"minim.mdp">>]

\* the rule files on disk: the bundled one and three a caller may name
RuleFiles ==
    (Fixtures.LATEST_PTMS_LIBRARY_PATH :>
        [metadata |-> [date |-> Fixtures.LATEST_PTMS_VERSION_DATE],
         modifications |-> RuleSource])
 @@ (<<"own.json">> :>
        [metadata |-> [date |-> <<"2026-01-01">>],
         modifications |-> BranchedRuleSource])
 @@ (<<"marked.json">> :>
        [metadata |-> [date |-> <<"2026-01-02">>, custom_library |-> TRUE],
         modifications |-> BranchedRuleSource])
 @@ (<<"faulty.json">> :>
        [metadata |-> [date |-> <<"2026-01-03">>],
         modifications |-> FaultyRuleSource])

\* the template directories on disk: the bundled one, one of the caller,
\* one with no file in it and one with no file ending in ".pdb"
TemplateDirs ==
    (Fixtures.LATEST_PTMS_PDBS_DIR_PATH :> TemplateDir)
 @@ (<<"own_pdbs">> :>
        [f \in {V3H \o PDB_ENDING, SEP \o PDB_ENDING} |-> TemplateDir[f]])
 @@ (<<"empty_dir">> :> <<>>)
 @@ (<<"notes_dir">> :>
        [f \in {<<"n", "o", "t", "e", "s", ".", "t", "x", "t">>} |-> <<>>])

\* the directory at a path, None when the path is no directory
DirectoryAt(path) ==
    IF path \in DOMAIN TemplateDirs THEN Directory(TemplateDirs[path]) ELSE NoDirectory

\* ModificationLibraryMetadata.model_validate: a field the file leaves out
\* takes its default
model_validate(metadata) ==
    [date |-> IF "date" \in DOMAIN metadata THEN metadata.date
              ELSE <<"undefined">>,
     custom_library |-> IF "custom_library" \in DOMAIN metadata
                        THEN metadata.custom_library ELSE FALSE]

\* the two loading calls that end __init__: open raises for a path with no
\* file, and _load_library replaces the metadata object by the one parsed
\* from the file
LoadFromPaths(library_path, pdbs_minimized) ==
    IF library_path \notin DOMAIN RuleFiles
    THEN [exc |-> "FileNotFoundError", logged |-> FALSE,
          library |-> None, metadata |-> None]
    ELSE [exc |-> Construct(RuleFiles[library_path].modifications,
                            DirectoryAt(pdbs_minimized)).exc,
          logged |-> Construct(RuleFiles[library_path].modifications,
                               DirectoryAt(pdbs_minimized)).logged,
          library |-> Construct(RuleFiles[library_path].modifications,
                                DirectoryAt(pdbs_minimized)).library,
          metadata |-> IF Construct(RuleFiles[library_path].modifications,
                                    DirectoryAt(pdbs_minimized)).exc = "none"
                       THEN model_validate(RuleFiles[library_path].metadata)
                       ELSE None]

\* Python's "not path" for a path argument
Omitted(path) == path = None \/ path = <<>>

\* ModificationLibrary.__init__(library_path, pdbs_minimized): the default
\* branch reads two attributes of fixtures, and reading an attribute the
\* object does not have raises AttributeError
ModificationLibrary__init__(library_path, pdbs_minimized) ==
    IF Omitted(library_path) \/ Omitted(pdbs_minimized)
    THEN IF /\ "PTMS_LIBRARY_PATH" \in DOMAIN Fixtures
            /\ "PTMS_PDBS_DIR_PATH" \in DOMAIN Fixtures
         THEN LoadFromPaths(Fixtures["PTMS_LIBRARY_PATH"],
                            Fixtures["PTMS_PDBS_DIR_PATH"])
         ELSE [exc |-> "AttributeError", logged |-> FALSE,
               library |-> None, metadata |-> None]
    ELSE LoadFromPaths(library_path, pdbs_minimized)

\* the arguments a caller passes
LibraryPaths == {None, <<>>, <<"missing.json">>} \cup DOMAIN RuleFiles

DirectoryPaths == {None, <<>>, <<"missing_dir">>} \cup DOMAIN TemplateDirs

InitPaths ==
    /\ scipy = AnyScipy
    /\ atoms = <<>>
    /\ residues = <<>>
    /\ structs = <<>>
    /\ held = {}
    /\ library = EmptyLibrary
    /\ calls = 0
    /\ procs = <<>>
    /\ \E library_path \in LibraryPaths, pdbs_minimized \in DirectoryPaths :
            last = [op |-> "paths", library_path |-> library_path,
                    pdbs_minimized |-> pdbs_minimized]

\* the new state after the constructor has run on the drawn paths
ConstructedFromPaths(got) ==
    /\ library' = IF got.exc = "none" THEN got.library ELSE library
    /\ last' = [op |-> "construct", library_path |-> last.library_path,
                pdbs_minimized |-> last.pdbs_minimized,
                exc |-> got.exc, logged |-> got.logged,
                metadata |-> got.metadata]
    /\ calls' = calls + 1
    /\ UNCHANGED <<scipy, structs, residues, atoms, held, procs>>

\* ModificationLibrary(library_path, pdbs_minimized)
ConstructFromPaths ==
    /\ last.op = "paths"
    /\ ConstructedFromPaths(ModificationLibrary__init__(last.library_path,
                                                       last.pdbs_minimized))

\* the calls on a library that the constructor returned
UseLibrary ==
    /\ library # EmptyLibrary
    /\ NextLibrary

NextPaths == ConstructFromPaths \/ UseLibrary

SpecPaths == InitPaths /\ [][NextPaths]_vars

(***************************************************************************)
(* Properties.  They speak about the most recent call (last): the heap     *)
(* before it (last.pre) and the heap after it (Heap).                      *)
(***************************************************************************)
Applied == last.op = "apply"

Returned == Applied /\ last.exc = "none"

Range(s) == {s[i] : i \in 1..Len(s)}

\* the atoms (object identities) of residue r in heap hp
AtomIds(hp, r) == Range(hp.residues[r].atoms)

\* the names of the atoms of residue r in heap hp
AtomNames(hp, r) == {hp.atoms[a].id : a \in AtomIds(hp, r)}

\* the atom record residue r holds under a name
AtomNamed(hp, r, name) ==
    hp.atoms[CHOOSE a \in AtomIds(hp, r) : hp.atoms[a].id = name]

\* a residue as a value: its identifier, its label and its atoms in order
ResidueValue(hp, r) ==
    [model |-> hp.residues[r].model, chain |-> hp.residues[r].chain,
     het |-> hp.residues[r].het, num |-> hp.residues[r].num,
     icode |-> hp.residues[r].icode, resname |-> hp.residues[r].resname,
     atoms |-> AsSeq([i \in 1..Len(hp.residues[r].atoms) |->
                        hp.atoms[hp.residues[r].atoms[i]]])]

\* a structure as a value
StructureValue(hp, h) ==
    [residues |-> AsSeq([i \in 1..Len(hp.structs[h].residues) |->
                            ResidueValue(hp, hp.structs[h].residues[i])]),
     log |-> hp.structs[h].log]

\* the objects a structure is made of
ResiduesOf(hp, h) == Range(hp.structs[h].residues)

AtomsOf(hp, h) == UNION {AtomIds(hp, r) : r \in ResiduesOf(hp, h)}

\* the residue of the structure passed in that the located residue is
\* (the same object in place, the one it was copied from otherwise)
PreResidue ==
    last.pre.structs[last.structure].residues[
        CHOOSE i \in 1..Len(structs[last.work].residues) :
            structs[last.work].residues[i] = last.residue]

\* the residues of the structure passed in that match the request
PreMatches ==
    {r \in ResiduesOf(last.pre, last.structure) :
        /\ last.pre.residues[r].chain = last.chain_identifier
        /\ last.pre.residues[r].num = last.residue_number}

\* the rule of the library for the located residue and the requested target
CallRules ==
    {m \in Range(library.modifications) :
        /\ m.residue_original_abbreviation = last.pre.residues[PreResidue].resname
        /\ m.residue_modified_abbreviation = last.target_abbreviation}

DeletionPairs(m) ==
    {p \in Range(m.atom_mapping) : p[1] # None /\ p[2] = None}

RenamePairs(m) ==
    {p \in Range(m.atom_mapping) : p[1] # None /\ p[2] # None /\ p[1] # p[2]}

IsHydrogenName(name) == StartsWith(name, "H")

\* C1 (as claimed): after a successful apply_modification the residue holds
\* no atom under a name that the atom_mapping marks for deletion.
C1_NoDeletedName ==
    Returned =>
        \A m \in CallRules : \A p \in DeletionPairs(m) :
            p[1] \notin AtomNames(Heap, last.residue)

\* C2 (as claimed): after a successful apply_modification every rename pair
\* (o, t) whose atom o was in the residue when the call began has left an
\* atom named t with the coordinate, occupancy, temperature factor, serial
\* number and element that o had.
C2_RenamedKeepsFields ==
    Returned =>
        \A m \in CallRules : \A p \in RenamePairs(m) :
            p[1] \in AtomNames(last.pre, PreResidue) =>
                /\ p[2] \in AtomNames(Heap, last.residue)
                /\ AtomNamed(Heap, last.residue, p[2]).coord
                        = AtomNamed(last.pre, PreResidue, p[1]).coord
                /\ AtomNamed(Heap, last.residue, p[2]).occupancy
                        = AtomNamed(last.pre, PreResidue, p[1]).occupancy
                /\ AtomNamed(Heap, last.residue, p[2]).bfactor
                        = AtomNamed(last.pre, PreResidue, p[1]).bfactor
                /\ AtomNamed(Heap, last.residue, p[2]).serial_number
                        = AtomNamed(last.pre, PreResidue, p[1]).serial_number
                /\ AtomNamed(Heap, last.residue, p[2]).element
                        = AtomNamed(last.pre, PreResidue, p[1]).element

\* the names a call may leave in the residue although they start with "H":
\* those a branch of the applied rule adds and the targets of its renames
AddedNames(m) ==
    UNION {Range(b.add_atoms) : b \in Range(m.add_branches)}

RenameTargets(m) == {p[2] : p \in RenamePairs(m)}

HydrogenNamesAfter ==
    {n \in AtomNames(Heap, last.residue) : IsHydrogenName(n)}

\* C3 (as claimed): after any apply_modification call the targeted residue
\* holds no atom whose name starts with "H" unless a branch added it.
C3_OnlyBranchHydrogens ==
    (Applied /\ last.residue # 0) =>
        \A n \in HydrogenNamesAfter : \E m \in CallRules : n \in AddedNames(m)

\* C3 (amended): after any apply_modification call the targeted residue
\* holds no atom whose name starts with "H" unless the name is in the
\* add_atoms of a branch of the applied rule or is the target name of one
\* of its rename pairs.
C3_OnlyRuleHydrogens ==
    (Applied /\ last.residue # 0) =>
        \A n \in HydrogenNamesAfter :
            \E m \in CallRules : n \in AddedNames(m) \cup RenameTargets(m)

\* a call on a residue that had hydrogens has returned, and the only
\* hydrogen left is one a branch added
C3_Witness ==
    /\ Returned
    /\ \E n \in AtomNames(last.pre, PreResidue) : IsHydrogenName(n)
    /\ HydrogenNamesAfter = {nHG3}

\* C4: with inplace=False the structure passed in is the same value after
\* the call as before it (atoms of every residue, type labels, log), whether
\* the call returns or raises, and a returned structure is another object
\* that shares no residue and no atom with it.  (The log of a structure is
\* held by value, one per structure.)
C4_CopyLeavesInput ==
    (Applied /\ ~last.inplace) =>
        /\ StructureValue(Heap, last.structure)
                = StructureValue(last.pre, last.structure)
        /\ last.exc = "none" =>
            /\ last.result # last.structure
            /\ ResiduesOf(Heap, last.result) \cap ResiduesOf(Heap, last.structure) = {}
            /\ AtomsOf(Heap, last.result) \cap AtomsOf(Heap, last.structure) = {}

\* a call with inplace=False has returned a structure that differs from
\* the one passed in
C4_Witness ==
    /\ Returned
    /\ ~last.inplace
    /\ StructureValue(Heap, last.result) # StructureValue(Heap, last.structure)

\* C5: when no residue matches the requested chain identifier and sequence
\* number the call raises ValueError, and with inplace=True nothing at all
\* has changed (no hydrogen removed, no label changed, no log entry).
C5_NotFoundLeavesAll ==
    (Applied /\ PreMatches = {}) =>
        /\ last.exc = "ValueError"
        /\ last.result = 0
        /\ last.inplace => Heap = last.pre

\* an in-place call found no residue, on a structure that has hydrogens
C5_Witness ==
    /\ Applied
    /\ last.inplace
    /\ PreMatches = {}
    /\ last.exc = "ValueError"
    /\ \E r \in ResiduesOf(Heap, last.structure) :
            \E n \in AtomNames(Heap, r) : IsHydrogenName(n)

LogBefore == last.pre.structs[last.structure].log

LogAfter == structs[last.work].log

LogColumns(row) ==
    <<row.residue_number, row.chain_identifier,
      row.original_abbreviation, row.target_abbreviation>>

\* C6: a call that returns appends exactly one entry to the end of the log
\* (requested residue number, requested chain, the label the residue had
\* when the call began, requested target) and keeps the earlier entries; a
\* call that raises leaves the log as it was.
C6_LogAppend ==
    Applied =>
        IF last.exc = "none"
        THEN /\ Len(LogAfter) = Len(LogBefore) + 1
             /\ \A i \in 1..Len(LogBefore) : LogAfter[i] = LogBefore[i]
             /\ LogColumns(LogAfter[Len(LogAfter)])
                    = <<last.residue_number, last.chain_identifier,
                        last.pre.residues[PreResidue].resname,
                        last.target_abbreviation>>
        ELSE /\ LogAfter = LogBefore
             /\ structs[last.structure].log = LogBefore

\* a second call has returned on a structure whose log already had an entry
C6_Witness ==
    /\ Returned
    /\ Len(LogBefore) = 1
    /\ Len(LogAfter) = 2

\* the type label of the template registered for the requested target
TemplateLabel ==
    TemplateDir[library.target_templates[last.target_abbreviation]][1].resname

\* C7: after a successful call the residue's type label is the template's
\* label, which is the requested target when both have the same length and
\* a substring of it otherwise.
C7_LabelIsTemplateLabel ==
    Returned =>
        /\ residues[last.residue].resname = TemplateLabel
        /\ Len(TemplateLabel) = Len(last.target_abbreviation)
                => TemplateLabel = last.target_abbreviation
        /\ Len(TemplateLabel) # Len(last.target_abbreviation)
                => IsSubstring(TemplateLabel, last.target_abbreviation)

\* a call has returned for a target whose template label is shorter
C7_Witness ==
    /\ Returned
    /\ Len(residues[last.residue].resname) # Len(last.target_abbreviation)

\* the template residue loaded for the requested target
TemplateResidue ==
    TemplateDir[library.target_templates[last.target_abbreviation]][1]

\* the names the anchors of branch k have in the original residue
BranchAnchors(m, k) ==
    AsSeq([i \in 1..Len(m.add_branches[k].anchor_atoms) |->
                MappingValue(m.atom_mapping, m.add_branches[k].anchor_atoms[i])])

\* the anchor coordinates branch k is aligned to: the first branch reads the
\* residue before the atom mapping is applied, later branches read it as the
\* mapping has left it (coordinates are never rewritten afterwards)
BranchReference(m, k) ==
    IF k = 1
    THEN ResidueCoords(last.pre, PreResidue, BranchAnchors(m, k))
    ELSE ResidueCoords(Heap, last.residue, BranchAnchors(m, k))

BranchTransform(m, k) ==
    compute_alignment_transform(
        BranchReference(m, k),
        TemplateCoords(TemplateResidue, m.add_branches[k].anchor_atoms),
        m.add_branches[k].weights)

ExpectedCoord(m, k, name) ==
    Aligned(<<TemplateAtom(TemplateResidue, name).coord>>, BranchTransform(m, k)).value[1]

\* C8: after a successful call, for every branch of the rule and every name
\* in its add_atoms the residue has an atom of that name, placed at the
\* branch's alignment transform of the template atom's coordinate, with the
\* template atom's element, occupancy 1.0, temperature factor 0 and no
\* serial number.
C8_AddedAtoms ==
    Returned =>
        \A m \in CallRules : \A k \in 1..Len(m.add_branches) :
            \A name \in Range(m.add_branches[k].add_atoms) :
                /\ name \in AtomNames(Heap, last.residue)
                /\ AtomNamed(Heap, last.residue, name).coord = ExpectedCoord(m, k, name)
                /\ AtomNamed(Heap, last.residue, name).element
                        = TemplateAtom(TemplateResidue, name).element
                /\ AtomNamed(Heap, last.residue, name).occupancy = 10
                /\ AtomNamed(Heap, last.residue, name).bfactor = 0
                /\ AtomNamed(Heap, last.residue, name).serial_number = NoSerial

\* VAL A:1 has become V3H: the template's OG3 at (1,2,1) stands at (3,6,6)
\* in the frame of the residue, the template's HG3 at (1,3,1) at (2,6,6)
C8_Witness ==
    /\ Returned
    /\ last.target_abbreviation = V3H
    /\ AtomNamed(Heap, last.residue, nOG3).coord = <<3, 6, 6>>
    /\ AtomNamed(Heap, last.residue, nHG3).coord = <<2, 6, 6>>
    /\ AtomNamed(Heap, last.residue, nOG3).coord
            # TemplateAtom(TemplateResidue, nOG3).coord

\* the atom of the structure passed in that atom a of the working structure
\* is (in place) or was copied from (deep copy); 0 for an atom created by
\* the call
Origin(a) ==
    IF last.inplace
    THEN IF a <= Len(last.pre.atoms) THEN a ELSE 0
    ELSE IF a - Len(last.pre.atoms)
                \in 1..Len(ReachableAtoms(last.pre,
                                          last.pre.structs[last.structure].residues))
         THEN ReachableAtoms(last.pre, last.pre.structs[last.structure].residues)
                    [a - Len(last.pre.atoms)]
         ELSE 0

\* C9: a call changes only the located residue and the log: every other
\* residue of the structure keeps its atoms, atom names, coordinates and
\* type label, and an atom of the located residue that existed before the
\* call and is still there afterwards keeps its coordinates.
C9_OnlyLocatedResidue ==
    Applied =>
        /\ Len(structs[last.work].residues)
                = Len(last.pre.structs[last.structure].residues)
        /\ \A i \in 1..Len(structs[last.work].residues) :
                structs[last.work].residues[i] # last.residue =>
                    ResidueValue(Heap, structs[last.work].residues[i])
                        = ResidueValue(last.pre,
                                       last.pre.structs[last.structure].residues[i])
        /\ last.residue # 0 =>
                \A a \in AtomIds(Heap, last.residue) :
                    Origin(a) \in AtomIds(last.pre, PreResidue) =>
                        atoms[a].coord = last.pre.atoms[Origin(a)].coord

\* an in-place call has changed the atoms of the located residue, CA is
\* still in it, and another residue of the structure still has a hydrogen
C9_Witness ==
    /\ Returned
    /\ last.inplace
    /\ AtomNames(Heap, last.residue) # AtomNames(last.pre, PreResidue)
    /\ \E a \in AtomIds(Heap, last.residue) :
            atoms[a].id = nCA /\ Origin(a) \in AtomIds(last.pre, PreResidue)
    /\ \E r \in ResiduesOf(Heap, last.work) \ {last.residue} :
            \E n \in AtomNames(Heap, r) : IsHydrogenName(n)

\* the loaded entries with exactly this pair of abbreviations
EntriesFor(original, modified) ==
    {m \in Range(library.modifications) :
        /\ m.residue_original_abbreviation = original
        /\ m.residue_modified_abbreviation = modified}

\* C10: library[(entry original, entry modified)] returns that entry, for
\* every loaded entry; a lookup by a pair that no entry matches in both
\* fields raises IndexError and returns nothing.
C10_LookupByPair ==
    /\ \A m \in Range(library.modifications) :
            GetItemByPair(library, m.residue_original_abbreviation,
                          m.residue_modified_abbreviation)
                = [exc |-> "none", value |-> m]
    /\ last.op = "getitem" =>
            IF EntriesFor(last.original, last.modified) = {}
            THEN last.exc = "IndexError" /\ last.value = None
            ELSE last.exc = "none"
                    /\ last.value \in EntriesFor(last.original, last.modified)

\* a lookup by the pair of a loaded entry has returned that entry
C10_Witness ==
    /\ last.op = "getitem"
    /\ last.exc = "none"
    /\ last.original = VAL
    /\ last.modified = V3H
    /\ last.value \in Range(library.modifications)
    /\ Len(last.value.add_branches) = 1

\* C11 (as claimed): library[i] returns entry i when 0 <= i < n and raises
\* IndexError for every other integer i, the negative ones included.
C11_IndexInRange ==
    last.op = "getindex" =>
        IF last.index >= 0 /\ last.index < Len(library.modifications)
        THEN last.exc = "none" /\ last.value = library.modifications[last.index + 1]
        ELSE last.exc = "IndexError" /\ last.value = None

\* C12 (as claimed): every error that propagates out of apply_modification
\* has been written to the error log before it is raised.
C12_ErrorsLogged ==
    (Applied /\ last.exc # "none") => last.logged

\* the rule m cut down to its first k branches
Truncated(m, k) ==
    [m EXCEPT !.add_branches = SubSeq(m.add_branches, 1, k)]

\* the heap as the call had it when the residue was stripped of hydrogens
StrippedBefore ==
    remove_hydrogens(WorkingCopy(last.pre, last.structure, last.inplace).hp,
                     last.residue)

\* the outcome of the branches before branch k of rule m
BeforeBranch(m, k) ==
    _execute_modification(StrippedBefore, last.residue, Truncated(m, k - 1),
                          TemplateResidue)

\* branch k of rule m, met with the residue as in heap hp, names an anchor
\* with no entry in the inverse mapping, an anchor absent from the residue
\* (under its translated name) or from the template, or an atom to add that
\* is absent from the template
AnchorFault(m, k, hp) ==
    \E i \in 1..Len(m.add_branches[k].anchor_atoms) :
        \/ ~MappingHasKey(m.atom_mapping, m.add_branches[k].anchor_atoms[i])
        \/ ~HasId(hp, last.residue,
                  MappingValue(m.atom_mapping, m.add_branches[k].anchor_atoms[i]))
        \/ ~TemplateHas(TemplateResidue, m.add_branches[k].anchor_atoms[i])

BranchFault(m, k, hp) ==
    \/ AnchorFault(m, k, hp)
    \/ \E i \in 1..Len(m.add_branches[k].add_atoms) :
        ~TemplateHas(TemplateResidue, m.add_branches[k].add_atoms[i])

\* the alignment of branch k of rule m raises before the atoms to add are
\* looked up: the weights sum to zero, one is negative, or the branch has a
\* single anchor and the build rejects a single pair of zero vectors
AlignmentRaises(m, k) ==
    \/ SumSeq(m.add_branches[k].weights) = 0
    \/ \E i \in 1..Len(m.add_branches[k].weights) : m.add_branches[k].weights[i] < 0
    \/ Len(m.add_branches[k].anchor_atoms) = 1 /\ scipy.rejects_single

\* the call got as far as the branches of a rule: the residue was located,
\* the rule was found and the template was loaded
ReachedBranches ==
    /\ Applied
    /\ last.residue # 0
    /\ GetItemByPair(library, StrippedBefore.residues[last.residue].resname,
                     last.target_abbreviation).exc = "none"
    /\ load_residue_from_pdb(library, TemplateDir, last.target_abbreviation).exc = "none"

\* C13: when a branch names an anchor with no entry in the inverse mapping,
\* an anchor absent from the residue or the template, or an atom to add that
\* the template lacks, the call raises during that branch and the branch has
\* added no atom and renamed or deleted nothing: the residue is as the
\* branches before it left it (as the hydrogen strip left it, for the first).
\* The error is KeyError for an anchor, and for an atom to add unless the
\* alignment, which comes first, has raised its own error.
C13_FaultyBranchChangesNothing ==
    ReachedBranches =>
        \A m \in CallRules : \A k \in 1..Len(m.add_branches) :
            (BeforeBranch(m, k).exc = "none" /\ BranchFault(m, k, BeforeBranch(m, k).hp))
            => /\ last.exc \in {"KeyError", "ValueError", "ZeroDivisionError"}
               /\ AnchorFault(m, k, BeforeBranch(m, k).hp) => last.exc = "KeyError"
               /\ ~AlignmentRaises(m, k) => last.exc = "KeyError"
               /\ ResidueValue(Heap, last.residue)
                    = ResidueValue(BeforeBranch(m, k).hp, last.residue)
               /\ k = 1 => AtomNames(Heap, last.residue)
                            = {n \in AtomNames(last.pre, PreResidue) : ~IsHydrogenName(n)}

\* a second branch with one anchor names an atom the template lacks, after
\* the first branch had added CG2, and the build rejects a single pair: the
\* call raised in the alignment
C13_Witness ==
    /\ ReachedBranches
    /\ scipy.rejects_single
    /\ last.exc = "ValueError"
    /\ last.target_abbreviation = VHX
    /\ nCG2 \in AtomNames(Heap, last.residue)
    /\ nP \notin AtomNames(Heap, last.residue)
    /\ \E m \in CallRules :
            /\ Len(m.add_branches[2].anchor_atoms) = 1
            /\ ~AnchorFault(m, 2, Heap)
            /\ BranchFault(m, 2, Heap)

\* no pair of the mapping has both names null, and no original name is in
\* more than one pair
WellFormedMapping(atom_mapping) ==
    /\ \A i \in 1..Len(atom_mapping) : atom_mapping[i] # <<None, None>>
    /\ \A i, j \in 1..Len(atom_mapping) :
            (i # j /\ atom_mapping[i][1] # None)
                => atom_mapping[i][1] # atom_mapping[j][1]

\* C14 (as claimed): every Modification of a loaded library has a
\* well-formed atom_mapping, and a library file with an entry whose mapping
\* is not well-formed is rejected at load.
C14_WellFormedMappings ==
    /\ \A m \in Range(library.modifications) : WellFormedMapping(m.atom_mapping)
    /\ (last.op = "load"
            /\ \E i \in 1..Len(last.rule_source) :
                    ~WellFormedMapping(last.rule_source[i].atom_mapping))
        => last.exc # "none"

\* the branches of a library file, as <<entry, branch>> positions
SourceBranches(rule_source) ==
    UNION {{<<i, j>> : j \in 1..Len(rule_source[i].add_branches)} :
                i \in 1..Len(rule_source)}

\* C15: every branch of a loaded library has as many weights as anchor
\* atoms; a library file with a branch given a non-empty list of weights of
\* another length is rejected with ValueError, and a branch given no weights
\* is loaded with weight 1.0 for each anchor atom (one given weights of the
\* right length keeps them).
C15_WeightsMatchAnchors ==
    /\ \A m \in Range(library.modifications) : \A b \in Range(m.add_branches) :
            Len(b.weights) = Len(b.anchor_atoms)
    /\ last.op = "load" =>
        /\ (\E p \in SourceBranches(last.rule_source) :
                /\ Len(last.rule_source[p[1]].add_branches[p[2]].weights) # 0
                /\ Len(last.rule_source[p[1]].add_branches[p[2]].weights)
                    # Len(last.rule_source[p[1]].add_branches[p[2]].anchor_atoms))
            => (last.exc = "ValueError" /\ library = EmptyLibrary)
        /\ last.exc = "none" =>
            \A p \in SourceBranches(last.rule_source) :
                library.modifications[p[1]].add_branches[p[2]].weights
                    = IF Len(last.rule_source[p[1]].add_branches[p[2]].weights) = 0
                      THEN AsSeq([i \in 1..Len(last.rule_source[p[1]].add_branches[p[2]]
                                                .anchor_atoms) |-> 1])
                      ELSE last.rule_source[p[1]].add_branches[p[2]].weights

\* a file whose branch has two anchors and no weights has been loaded, and
\* the loaded branch weighs each anchor 1.0
C15_Witness ==
    /\ last.op = "load"
    /\ last.exc = "none"
    /\ \E p \in SourceBranches(last.rule_source) :
        /\ last.rule_source[p[1]].add_branches[p[2]].anchor_atoms = <<nN, nCA>>
        /\ last.rule_source[p[1]].add_branches[p[2]].weights = <<>>
        /\ library.modifications[p[1]].add_branches[p[2]].weights = <<1, 1>>

\* C16 (as claimed): load_residue_from_pdb(target), for a target with a
\* registered template file, returns the residue of the file when the file
\* holds exactly one residue and its label is consistent with the target,
\* and raises ValueError when the file holds no residue, more than one, or
\* one whose label does not match.
C16_ExactlyOneResidue ==
    (last.op = "template" /\ last.target_abbreviation \in DOMAIN library.target_templates)
        => IF Len(last.file) = 1
                /\ IsSubstring(last.file[1].resname, last.target_abbreviation)
           THEN last.exc = "none" /\ last.value = last.file[1]
           ELSE last.exc = "ValueError"

\* C17 (as claimed): the list of modifications changes only through indexed
\* replacement: library[i] = m for a valid index i puts m at entry i and keeps
\* the length and every other entry, and no other call changes the list.
C17_OnlyIndexedReplacement ==
    [][/\ (last'.op = "setitem" /\ last'.index >= 0
                /\ last'.index < Len(library.modifications))
            => /\ last'.exc = "none"
               /\ library'.modifications
                    = [library.modifications EXCEPT ![last'.index + 1] = last'.value]
       /\ last'.op # "setitem" => library' = library]_vars

\* invocation p has returned or raised
Finished(p) == procs[p].pc \in {"done", "raised"}

\* the outcome of invocation p run alone, from the first state
Alone(p) ==
    apply_modification(ConcurrentHeap, LoadLibrary(RuleSource, TemplateDir),
                       TemplateDir, procs[p].structure, procs[p].chain_identifier,
                       procs[p].residue_number, procs[p].target_abbreviation,
                       procs[p].inplace)

\* C18: two invocations that share one library and run on two structures:
\* in every interleaving of their steps, each invocation ends as it ends when
\* run alone (same return or error, same structure passed in, same structure
\* worked on), whatever the other has done or does afterwards, and the
\* library is unchanged.
C18_InterleavingIsolation ==
    /\ procs # <<>> => library = LoadLibrary(RuleSource, TemplateDir)
    /\ \A p \in DOMAIN procs :
        Finished(p) =>
            /\ procs[p].exc = Alone(p).exc
            /\ procs[p].logged = Alone(p).logged
            /\ (procs[p].result = 0) = (Alone(p).result = 0)
            /\ StructureValue(Heap, procs[p].structure)
                    = StructureValue(Alone(p).hp, procs[p].structure)
            /\ StructureValue(Heap, procs[p].work)
                    = StructureValue(Alone(p).hp, Alone(p).work)

\* both invocations have returned, each having changed its own structure in
\* place, and both added atoms
C18_Witness ==
    /\ procs # <<>>
    /\ \A p \in DOMAIN procs :
        /\ procs[p].pc = "done"
        /\ procs[p].inplace
        /\ procs[p].k > 1
        /\ StructureValue(Heap, procs[p].structure)
                # StructureValue(ConcurrentHeap, procs[p].structure)

\* the entries of a log, in order, without their index labels
Entries(log) == AsSeq([i \in 1..Len(log) |-> LogColumns(log[i])])

\* the entry is not the one of this residue number and chain identifier
Other(entry, residue_number, chain_identifier) ==
    ~(entry[1] = residue_number /\ entry[2] = chain_identifier)

RECURSIVE Without(_, _, _)
\* the reference list without the entries of a residue number and chain
Without(list, residue_number, chain_identifier) ==
    IF list = <<>> THEN <<>>
    ELSE IF Other(Head(list), residue_number, chain_identifier)
         THEN <<Head(list)>> \o Without(Tail(list), residue_number, chain_identifier)
         ELSE Without(Tail(list), residue_number, chain_identifier)

\* what the call described by call makes of the reference list
Reference(list, call) ==
    IF call.op = "add"
    THEN Append(list, <<call.residue_number, call.chain_identifier,
                        call.original_abbreviation, call.target_abbreviation>>)
    ELSE IF call.op = "delete"
         THEN Without(list, call.residue_number, call.chain_identifier)
         ELSE list

\* C19: every call on the log takes its entries to what the same call makes
\* of the reference list: add appends one entry and keeps the others, delete
\* removes all and only the entries of the residue number and chain, print
\* changes nothing.  Violated: adding after a deletion overwrites an entry,
\* and deleting after print_log removes every printed entry.
C19_LogFollowsReference ==
    [][last'.op \in {"add", "delete", "print"} =>
            Entries(structs'[last'.structure].log)
                = Reference(Entries(structs[last'.structure].log), last')]_vars

\* a transform has been returned and applied to the template points
Transformed == last.op = "align" /\ last.exc = "none"

\* the weighted centroid of the reference points minus the weighted centroid
\* of the transformed template points, times the total weight
CentroidGap ==
    Sub3(WeightedSum(last.coord_reference, last.weights),
         WeightedSum(last.transformed, last.weights))

\* C20: whenever compute_alignment_transform returns (R, t), the template
\* points transformed by apply_transform have the weighted centroid of the
\* reference points.
C20_CentroidsCoincide == Transformed => CentroidGap = Zero3

\* a transform with a rotation other than the identity and a translation
\* other than zero, for two points with weights that differ and reference
\* points that differ
C20_Witness ==
    /\ Transformed
    /\ Len(last.weights) > 1
    /\ last.weights[1] # last.weights[2]
    /\ last.coord_reference[1] # last.coord_reference[2]
    /\ last.M_rotation # Identity3
    /\ last.v_translation # Zero3
    /\ MatVec(last.M_rotation, WeightedSum(last.coord_template, last.weights))
            # WeightedSum(last.coord_template, last.weights)

\* the atoms (records) of the residue of the call in heap hp, in order
AtomsIn(hp) == ResidueValue(hp, last.residue).atoms

\* the atom (object identity) the residue of the call holds under a name
IdNamed(hp, name) ==
    CHOOSE a \in AtomIds(hp, last.residue) : hp.atoms[a].id = name

\* branch k of rule m was reached and ran to its end
BranchRan(m, k) ==
    BeforeBranch(m, k).exc = "none" /\ BeforeBranch(m, k + 1).exc = "none"

\* between heaps pre and post, the atom named by every deletion pair of m
\* has left the residue and the atom named by every rename pair carries the
\* target name, for the pairs whose atom the residue held
MappingPerformed(m, pre, post) ==
    /\ \A p \in DeletionPairs(m) :
        p[1] \in AtomNames(pre, last.residue)
            => IdNamed(pre, p[1]) \notin AtomIds(post, last.residue)
    /\ \A p \in RenamePairs(m) :
        p[1] \in AtomNames(pre, last.residue)
            => /\ IdNamed(pre, p[1]) \in AtomIds(post, last.residue)
               /\ post.atoms[IdNamed(pre, p[1])].id = p[2]

\* between heaps pre and post no atom has left the residue and none has
\* another name: the atoms of pre are the first atoms of post, as they were
NothingMapped(pre, post) ==
    /\ Len(AtomsIn(pre)) <= Len(AtomsIn(post))
    /\ SubSeq(post.residues[last.residue].atoms, 1, Len(AtomsIn(pre)))
            = pre.residues[last.residue].atoms
    /\ SubSeq(AtomsIn(post), 1, Len(AtomsIn(pre))) = AtomsIn(pre)

\* C22: in a call on a rule with k >= 1 branches, the deletions and renames
\* of the atom_mapping are done while the first branch is processed, each
\* once (the deleted atom is gone and the renamed atom has its target name
\* when the first branch ends), and each of the branches 2..k deletes and
\* renames nothing: it leaves the atoms it met in place, as they were.  A
\* call that returns leaves the atoms the last branch left.
C22_MappingOnceOnFirstBranch ==
    ReachedBranches =>
        \A m \in CallRules :
            /\ \A k \in 1..Len(m.add_branches) :
                BranchRan(m, k) =>
                    IF k = 1
                    THEN MappingPerformed(m, BeforeBranch(m, 1).hp, BeforeBranch(m, 2).hp)
                    ELSE NothingMapped(BeforeBranch(m, k).hp, BeforeBranch(m, k + 1).hp)
            /\ last.exc = "none"
                => AtomsIn(Heap) = AtomsIn(BeforeBranch(m, Len(m.add_branches) + 1).hp)

\* a call on a rule with two branches has returned: the first branch
\* deleted CG1 and renamed CG2, the second added HG3
C22_Witness ==
    /\ Returned
    /\ last.target_abbreviation = V3H
    /\ \E m \in CallRules : Len(m.add_branches) = 2 /\ BranchRan(m, 2)
    /\ nCG1 \in AtomNames(last.pre, PreResidue)
    /\ nCG1 \notin AtomNames(Heap, last.residue)
    /\ nCGX \in AtomNames(Heap, last.residue)
    /\ nHG3 \in AtomNames(Heap, last.residue)

\* the original names that the inverse mapping gives for the anchors of
\* branch k of rule m
TranslatedAnchors(m, k) ==
    {MappingValue(m.atom_mapping, a) :
        a \in {b \in Range(m.add_branches[k].anchor_atoms) :
                    MappingHasKey(m.atom_mapping, b)}}

\* C23 (as claimed): for every branch that is reached, the first and the
\* later ones, every anchor is translated through the inverse mapping, and
\* when the atom of the translated name was in the residue at the start of
\* the call and is not marked for deletion, the fetch from the residue
\* succeeds and gives that atom, renamed by the mapping or not.
C23_AnchorFetchedByIdentity ==
    ReachedBranches =>
        \A m \in CallRules : \A k \in 1..Len(m.add_branches) :
            BeforeBranch(m, k).exc = "none" =>
                \A o \in TranslatedAnchors(m, k) :
                    (/\ o # None
                     /\ o \in AtomNames(StrippedBefore, last.residue)
                     /\ o \notin {p[1] : p \in DeletionPairs(m)})
                    => /\ HasId(BeforeBranch(m, k).hp, last.residue, o)
                       /\ GetChild(BeforeBranch(m, k).hp, last.residue, o)
                            = IdNamed(StrippedBefore, o)

\* branch k of rule m was reached and raised
BranchRaised(m, k) ==
    BeforeBranch(m, k).exc = "none" /\ BeforeBranch(m, k + 1).exc # "none"

\* C24: when a branch after the first raises in a call with inplace=True,
\* the call raises and the residue of the structure passed in keeps what
\* was done before: the atoms that the earlier branches left are still its
\* first atoms, as they were (the added ones included), the deletions and
\* renames of the atom_mapping are in effect, its type label is the one it
\* had before the call and the log is as before the call.
C24_NoRollback ==
    (ReachedBranches /\ last.inplace) =>
        \A m \in CallRules : \A k \in 2..Len(m.add_branches) :
            BranchRaised(m, k) =>
                /\ last.exc # "none"
                /\ last.result = 0
                /\ last.work = last.structure
                /\ NothingMapped(BeforeBranch(m, k).hp, Heap)
                /\ \A j \in 1..(k - 1) :
                        Range(m.add_branches[j].add_atoms) \subseteq AtomNames(Heap, last.residue)
                /\ MappingPerformed(m, StrippedBefore, Heap)
                /\ residues[last.residue].resname = last.pre.residues[last.residue].resname
                /\ structs[last.structure].log = last.pre.structs[last.structure].log

\* the second branch of SER_V3H has raised in place: the atom CGX that the
\* first branch added is there, OG is renamed and CB is deleted, and the
\* residue is still labelled SER
C24_Witness ==
    /\ Applied
    /\ last.inplace
    /\ last.exc = "KeyError"
    /\ last.target_abbreviation = V3H
    /\ \E m \in CallRules : BranchRaised(m, 2)
    /\ nCGX \in AtomNames(Heap, last.residue)
    /\ nOG3 \in AtomNames(Heap, last.residue)
    /\ nCB \notin AtomNames(Heap, last.residue)
    /\ nCB \in AtomNames(last.pre, last.residue)
    /\ residues[last.residue].resname = SER

\* the library has no rule from the type of the located residue to the target
RuleMissing ==
    GetItemByPair(library, last.pre.residues[PreResidue].resname,
                  last.target_abbreviation).exc # "none"

\* the library has no template file for the target
TemplateMissing == last.target_abbreviation \notin DOMAIN library.target_templates

NotHydrogen(atom) == ~IsHydrogenName(atom.name)

\* C25: a call with inplace=True that locates its residue and finds no rule
\* for (type of the residue, target), or no template for the target, raises
\* (IndexError from the rule lookup, KeyError from the template lookup)
\* with the hydrogen strip done: the residue holds its atoms of before the
\* call whose names do not start with "H", in order and as they were, and
\* its type label and the log are unchanged.
C25_StripBeforeLookup ==
    (Applied /\ last.inplace /\ last.residue # 0 /\ (RuleMissing \/ TemplateMissing)) =>
        /\ last.exc = IF RuleMissing THEN "IndexError" ELSE "KeyError"
        /\ last.result = 0
        /\ AtomsIn(Heap) = SelectSeq(AtomsIn(last.pre), NotHydrogen)
        /\ residues[last.residue].resname = last.pre.residues[last.residue].resname
        /\ structs[last.structure].log = last.pre.structs[last.structure].log

\* a call in place on a serine with a hydrogen, for a target that has a
\* rule and no template, has raised and the hydrogen is gone
C25_Witness ==
    /\ Applied
    /\ last.inplace
    /\ last.residue # 0
    /\ ~RuleMissing
    /\ TemplateMissing
    /\ last.exc = "KeyError"
    /\ \E n \in AtomNames(last.pre, last.residue) : IsHydrogenName(n)
    /\ \A n \in AtomNames(Heap, last.residue) : ~IsHydrogenName(n)

\* the positions, in the traversal of the structure passed in, of the
\* residues that match the request
MatchPositions ==
    {i \in 1..Len(last.pre.structs[last.structure].residues) :
        last.pre.structs[last.structure].residues[i] \in PreMatches}

\* the first of them
FirstMatch == CHOOSE i \in MatchPositions : \A j \in MatchPositions : i <= j

\* C26: when several residues of the structure have the requested chain
\* identifier and sequence number (in other models, or with another
\* hetero-flag or insertion code), the call works on the first of them in
\* traversal order, and every other residue of the structure it works on,
\* the other matches included, is as before the call, hydrogens included.
C26_FirstMatchOnly ==
    (Applied /\ Cardinality(PreMatches) >= 2) =>
        /\ last.residue = structs[last.work].residues[FirstMatch]
        /\ Len(structs[last.work].residues) = Len(last.pre.structs[last.structure].residues)
        /\ \A i \in 1..Len(structs[last.work].residues) :
            i # FirstMatch =>
                ResidueValue(Heap, structs[last.work].residues[i])
                    = ResidueValue(last.pre, last.pre.structs[last.structure].residues[i])

\* a call for B:1, which is there as a hetero residue of model 0 and as a
\* residue of model 1, has returned: the first lost its hydrogen and got
\* atoms, the second still has its hydrogen
C26_Witness ==
    /\ Returned
    /\ last.chain_identifier = "B"
    /\ Cardinality(PreMatches) = 2
    /\ residues[last.residue].het = "H_SER"
    /\ nH \notin AtomNames(Heap, last.residue)
    /\ nP \in AtomNames(Heap, last.residue)
    /\ \E i \in MatchPositions :
        /\ i # FirstMatch
        /\ nH \in AtomNames(Heap, structs[last.work].residues[i])
        /\ nP \notin AtomNames(Heap, structs[last.work].residues[i])

\* C27: a call whose rule has no branch, and whose template is loaded,
\* returns without any deletion or rename of the atom_mapping: the residue
\* holds its atoms of before the call whose names do not start with "H",
\* under their names, in order and as they were; its type label is the
\* label of the template and the log has one more entry, for this call.
C27_NoBranchNoMapping ==
    ReachedBranches =>
        \A m \in CallRules :
            Len(m.add_branches) = 0 =>
                /\ last.exc = "none"
                /\ AtomsIn(Heap) = SelectSeq(ResidueValue(last.pre, PreResidue).atoms,
                                             NotHydrogen)
                /\ residues[last.residue].resname = TemplateResidue.resname
                /\ Entries(LogAfter)
                    = Append(Entries(LogBefore),
                             <<last.residue_number, last.chain_identifier,
                               last.pre.residues[PreResidue].resname,
                               last.target_abbreviation>>)

\* a call for SER -> DHA, a rule with no branch that deletes OG and renames
\* CB to CGX, has returned: OG and CB are there, the label is DHA and the
\* log has its entry
C27_Witness ==
    /\ Returned
    /\ last.target_abbreviation = DHA
    /\ \E m \in CallRules :
        /\ Len(m.add_branches) = 0
        /\ <<nOG, None>> \in DeletionPairs(m)
        /\ <<nCB, nCGX>> \in RenamePairs(m)
    /\ nOG \in AtomNames(Heap, last.residue)
    /\ nCB \in AtomNames(Heap, last.residue)
    /\ nCGX \notin AtomNames(Heap, last.residue)
    /\ residues[last.residue].resname = DHA
    /\ Len(LogAfter) = Len(LogBefore) + 1

\* the original names of the null-target pairs of the rule of the call
DeletedNames == UNION {{p[1] : p \in DeletionPairs(m)} : m \in CallRules}

\* the names the rule of the call may give to an atom named n: n itself
\* and the targets of the rename pairs with original n
NamesFor(n) ==
    {n} \cup UNION {{p[2] : p \in {q \in RenamePairs(m) : q[1] = n}} : m \in CallRules}

\* C28 (as claimed): across any call, returning or raising, every atom that
\* the located residue held before the call under a name that does not
\* start with "H" and is not the original of a null-target pair is still in
\* the residue, under its name or the name a rename pair gives it, with its
\* coordinate unchanged.
C28_MappedAtomsKept ==
    (Applied /\ last.residue # 0) =>
        \A a \in AtomIds(StrippedBefore, last.residue) :
            StrippedBefore.atoms[a].id \notin DeletedNames =>
                /\ a \in AtomIds(Heap, last.residue)
                /\ atoms[a].coord = StrippedBefore.atoms[a].coord
                /\ atoms[a].id \in NamesFor(StrippedBefore.atoms[a].id)

\* the first branch of rule m gets as far as the loop over atom_mapping
MappingReached(m) ==
    /\ ReachedBranches
    /\ Len(m.add_branches) >= 1
    /\ ~BranchFault(m, 1, StrippedBefore)
    /\ SumSeq(m.add_branches[1].weights) # 0

\* the outcome of the first i pairs of the atom_mapping of rule m
AfterPairs(m, i) ==
    ApplyAtomMapping(StrippedBefore, last.residue, SubSeq(m.atom_mapping, 1, i))

\* pair i of rule m is met with its original atom absent from the residue
AbsentAtPair(m, i) ==
    /\ AfterPairs(m, i - 1).exc = "none"
    /\ m.atom_mapping[i][1] # None
    /\ ~HasId(AfterPairs(m, i - 1).hp, last.residue, m.atom_mapping[i][1])

\* C29: while the atom_mapping is applied, a deletion pair whose original
\* atom is absent is skipped (the loop goes on, the residue is as it was),
\* and a rename pair whose original atom is absent makes the call raise
\* KeyError with the residue as the pairs before it left it.
C29_AbsentOriginal ==
    ReachedBranches =>
        \A m \in CallRules :
            MappingReached(m) =>
                \A i \in 1..Len(m.atom_mapping) :
                    AbsentAtPair(m, i) =>
                        /\ m.atom_mapping[i] \in DeletionPairs(m)
                            => /\ AfterPairs(m, i).exc = "none"
                               /\ AfterPairs(m, i).hp = AfterPairs(m, i - 1).hp
                        /\ m.atom_mapping[i] \in RenamePairs(m)
                            => /\ last.exc = "KeyError"
                               /\ last.result = 0
                               /\ ResidueValue(Heap, last.residue)
                                    = ResidueValue(AfterPairs(m, i - 1).hp, last.residue)

\* a call for SER -> SEP on a serine with the hydrogen HG has raised at the
\* pair (HG, HG1), after the deletion pair of the absent HB was skipped and
\* OG was renamed to O1P
C29_Witness ==
    /\ Applied
    /\ last.exc = "KeyError"
    /\ last.target_abbreviation = SEP
    /\ nHG \in AtomNames(last.pre, PreResidue)
    /\ \E m \in CallRules :
        /\ MappingReached(m)
        /\ \E i, j \in 1..Len(m.atom_mapping) :
            /\ i < j
            /\ AbsentAtPair(m, i) /\ m.atom_mapping[i] = <<nHB, None>>
            /\ AbsentAtPair(m, j) /\ m.atom_mapping[j] = <<nHG, nHG1>>
    /\ nO1P \in AtomNames(Heap, last.residue)
    /\ nOG \notin AtomNames(Heap, last.residue)

(***************************************************************************)
(* The constructor's choice between the caller's paths and the defaults.   *)
(***************************************************************************)
\* the constructor has run on the drawn paths
PathsConstructed == last.op = "construct"

\* C30: ModificationLibrary(library_path, pdbs_minimized) loads the caller's
\* rule file and template directory only when both are given; when either is
\* omitted it loads the bundled rule file and the bundled template directory
\* and the library is not marked as custom.
C30_DefaultsUnlessBothGiven ==
    PathsConstructed =>
        IF Omitted(last.library_path) \/ Omitted(last.pdbs_minimized)
        THEN /\ last.exc = "none"
             /\ library = LoadLibrary(RuleSource, TemplateDir)
             /\ ~last.metadata.custom_library
        ELSE /\ last.exc = LoadFromPaths(last.library_path,
                                         last.pdbs_minimized).exc
             /\ last.exc = "none" =>
                    library = LoadLibrary(
                        RuleFiles[last.library_path].modifications,
                        DirectoryAt(last.pdbs_minimized).files)

====
